---- MODULE Spec2Model ----
(***************************************************************************)
(* Shipment / invoice reconciliation engine (hub/sku_master.py).           *)
(*                                                                         *)
(* Strings are modelled as sequences of one-character strings, so that     *)
(* splitting, regular-expression matching, zero padding and parsing are    *)
(* computed character by character the way the Python code computes them. *)
(* Weights and volumes are fixed-point integers: one unit is 0.05, so the  *)
(* tolerance 0.10 is TOL == 2 units.                                       *)
(***************************************************************************)
EXTENDS Integers, Sequences, FiniteSets, TLC

(***************************************************************************)
(* Characters                                                              *)
(***************************************************************************)
\* U+00B2 SUPERSCRIPT TWO: str.isdigit() is True, int() raises ValueError,
\* and the regular expression class \d does not match it.
SUP2 == "SUP2"

DecDigits == {"0", "1", "2", "3", "4", "5", "6", "7", "8", "9"}

UpperLetters == {"A", "B", "E", "H", "N", "X"}

LowerLetters == {"x"}

\* str.isdigit() on a whole string
IsDigitStr(s) == Len(s) > 0 /\ \A i \in 1..Len(s) : s[i] \in DecDigits \cup {SUP2}

\* the regular expression \d+ anchored on a whole string
IsDecStr(s) == Len(s) > 0 /\ \A i \in 1..Len(s) : s[i] \in DecDigits

\* the regular expression [A-Za-z0-9]+ anchored on a whole string
IsAlnumStr(s) ==
    Len(s) > 0 /\ \A i \in 1..Len(s) : s[i] \in DecDigits \cup UpperLetters \cup LowerLetters

\* the regular expression class \w (Unicode word characters)
IsWordChar(c) == c \in DecDigits \cup UpperLetters \cup LowerLetters \cup {SUP2, "_"}

Upper(c) == IF c = "x" THEN "X" ELSE c

DigitVal(c) ==
    CASE c = "0" -> 0 [] c = "1" -> 1 [] c = "2" -> 2 [] c = "3" -> 3 [] c = "4" -> 4
      [] c = "5" -> 5 [] c = "6" -> 6 [] c = "7" -> 7 [] c = "8" -> 8 [] c = "9" -> 9

DigitChar(d) ==
    CASE d = 0 -> "0" [] d = 1 -> "1" [] d = 2 -> "2" [] d = 3 -> "3" [] d = 4 -> "4"
      [] d = 5 -> "5" [] d = 6 -> "6" [] d = 7 -> "7" [] d = 8 -> "8" [] d = 9 -> "9"

(***************************************************************************)
(* String helpers (Python str methods)                                     *)
(***************************************************************************)
RECURSIVE RemoveChar(_, _)
\* s.replace(ch, "")
RemoveChar(s, ch) ==
    IF s = << >> THEN << >>
    ELSE IF Head(s) = ch THEN RemoveChar(Tail(s), ch)
    ELSE << Head(s) >> \o RemoveChar(Tail(s), ch)

Contains(s, ch) == \E i \in 1..Len(s) : s[i] = ch

\* position of the first / last occurrence of ch, 0 when absent
FirstPos(s, ch) ==
    IF Contains(s, ch) THEN CHOOSE i \in 1..Len(s) : s[i] = ch /\ \A j \in 1..(i-1) : s[j] # ch
    ELSE 0

LastPos(s, ch) ==
    IF Contains(s, ch)
    THEN CHOOSE i \in 1..Len(s) : s[i] = ch /\ \A j \in (i+1)..Len(s) : s[j] # ch
    ELSE 0

RECURSIVE Split(_, _)
\* s.split(ch): always at least one piece, empty pieces kept
Split(s, ch) ==
    IF ~Contains(s, ch) THEN << s >>
    ELSE LET p == FirstPos(s, ch)
         IN << SubSeq(s, 1, p - 1) >> \o Split(SubSeq(s, p + 1, Len(s)), ch)

RECURSIVE ToInt(_)
\* int(x) for a string of decimal digits
ToInt(s) ==
    IF s = << >> THEN 0
    ELSE 10 * ToInt(SubSeq(s, 1, Len(s) - 1)) + DigitVal(s[Len(s)])

RECURSIVE IntToStr(_)
\* str(n) for n >= 0
IntToStr(n) ==
    IF n < 10 THEN << DigitChar(n) >>
    ELSE IntToStr(n \div 10) \o << DigitChar(n % 10) >>

RECURSIVE ZeroPad(_, _)
ZeroPad(s, width) == IF Len(s) >= width THEN s ELSE ZeroPad(<< "0" >> \o s, width)

\* int(x) raises ValueError on a digit-like character that is not a decimal digit
Pad4Raises(x) == ~IsDecStr(x)

\* pad4: f"{int(x):04d}"
pad4(x) == ZeroPad(IntToStr(ToInt(x)), 4)

(***************************************************************************)
(* expand_combined_codes                                                   *)
(***************************************************************************)
\* re.match(r"^(.*-)(\d+)(-[A-Za-z0-9]+)?$", base) with the fallback of the
\* code when it does not match; num = << >> with hasNum = FALSE is None.
BaseSegments(base) ==
    LET last == LastPos(base, "-")
        rest == SubSeq(base, last + 1, Len(base))
        head == SubSeq(base, 1, last - 1)
        prev == LastPos(head, "-")
        mid  == SubSeq(base, prev + 1, last - 1)
    IN  IF last > 0 /\ IsDecStr(rest)
        THEN \* greedy (.*-) takes everything up to the last hyphen
             [prefix |-> SubSeq(base, 1, last), hasNum |-> TRUE, num |-> rest, sub |-> << >>]
        ELSE IF last > 0 /\ prev > 0 /\ IsDecStr(mid) /\ IsAlnumStr(rest)
        THEN [prefix |-> SubSeq(base, 1, prev), hasNum |-> TRUE, num |-> mid,
              sub |-> SubSeq(base, last, Len(base))]
        ELSE IF last > 0
        THEN \* rsplit("-", 1): the remainder has no hyphen and is not digits
             [prefix |-> SubSeq(base, 1, last), hasNum |-> FALSE, num |-> << >>, sub |-> << >>]
        ELSE \* no hyphen at all: rsplit gives [base], prefix = base + "-"
             [prefix |-> base \o << "-" >>, hasNum |-> IsDecStr(base),
              num |-> IF IsDecStr(base) THEN base ELSE << >>, sub |-> << >>]

\* one iteration of "for token in parts[1:]"
ExpandToken(seg, t) ==
    IF Contains(t, "-")
    THEN LET p        == FirstPos(t, "-")
             num_part == SubSeq(t, 1, p - 1)
             sub_part == SubSeq(t, p + 1, Len(t))
         IN  IF IsDigitStr(num_part)
             THEN IF Pad4Raises(num_part)
                  THEN [raised |-> TRUE, code |-> << >>]
                  ELSE [raised |-> FALSE,
                        code |-> seg.prefix \o pad4(num_part) \o << "-" >> \o sub_part]
             ELSE [raised |-> FALSE, code |-> t]
    ELSE IF IsDigitStr(t) /\ seg.hasNum
         THEN IF Pad4Raises(t)
              THEN [raised |-> TRUE, code |-> << >>]
              ELSE [raised |-> FALSE, code |-> seg.prefix \o pad4(t) \o seg.sub]
         ELSE [raised |-> FALSE, code |-> t]

RECURSIVE ExpandTokens(_, _, _, _)
ExpandTokens(seg, parts, i, acc) ==
    IF i > Len(parts) THEN [raised |-> FALSE, value |-> acc]
    ELSE LET r == ExpandToken(seg, parts[i])
         IN  IF r.raised THEN [raised |-> TRUE, value |-> {}]
             ELSE ExpandTokens(seg, parts, i + 1, acc \cup {r.code})

\* expand_combined_codes(code) for a str argument
expand_combined_codes(code) ==
    IF ~Contains(code, ",") THEN [raised |-> FALSE, value |-> {code}]
    ELSE LET parts == Split(RemoveChar(code, " "), ",")
             base  == parts[1]
         IN  ExpandTokens(BaseSegments(base), parts, 2, {base})

(***************************************************************************)
(* normalize_hvdc_code, split_hvdc_code, extract_parts                     *)
(***************************************************************************)
\* a missing part (Python None)
NoPart == << "<None>" >>

RECURSIVE Strip(_)
\* str.strip()
Strip(s) ==
    IF s = << >> THEN s
    ELSE IF Head(s) = " " THEN Strip(Tail(s))
    ELSE IF s[Len(s)] = " " THEN Strip(SubSeq(s, 1, Len(s) - 1))
    ELSE s

RECURSIVE KeepWordAndHyphen(_)
\* re.sub(r'[^\w\-]', '', s)
KeepWordAndHyphen(s) ==
    IF s = << >> THEN << >>
    ELSE IF IsWordChar(Head(s)) \/ Head(s) = "-"
         THEN << Head(s) >> \o KeepWordAndHyphen(Tail(s))
         ELSE KeepWordAndHyphen(Tail(s))

RECURSIVE CollapseHyphens(_)
\* re.sub(r'-+', '-', s)
CollapseHyphens(s) ==
    IF Len(s) < 2 THEN s
    ELSE IF s[1] = "-" /\ s[2] = "-" THEN CollapseHyphens(Tail(s))
    ELSE << Head(s) >> \o CollapseHyphens(Tail(s))

UpperStr(s) == [i \in 1..Len(s) |-> Upper(s[i])]

normalize_hvdc_code(code) ==
    IF code = << >> THEN << >>
    ELSE CollapseHyphens(KeepWordAndHyphen(UpperStr(Strip(code))))

\* [p.strip() for p in normalized_code.split("-") if p.strip()]
NonEmpty(parts) == SelectSeq(parts, LAMBDA p : p # << >>)

\* split_hvdc_code: the parts padded with None to five, cut at five
split_hvdc_code(code) ==
    LET parts == NonEmpty(Split(normalize_hvdc_code(code), "-"))
    IN  [i \in 1..5 |-> IF i <= Len(parts) THEN parts[i] ELSE NoPart]

\* extract_parts: the part columns are absent from the input sheets, so every
\* part is filled from split_hvdc_code; then astype(str).str.strip()
\* .str.upper().replace({"NAN": None, "NONE": None}).
extract_parts(code) ==
    LET parts == split_hvdc_code(code)
    IN  [i \in 1..5 |->
            IF parts[i] \in {NoPart, << "N", "A", "N" >>, << "N", "O", "N", "E" >>}
            THEN NoPart ELSE UpperStr(parts[i])]

\* elementwise == of a pandas object column with a scalar: None equals nothing
PartEq(a, b) == a # NoPart /\ b # NoPart /\ a = b

VENDOR_EXTENDED ==
    { << "H", "E" >>, << "S", "I", "M" >>, << "S", "C", "T" >>, << "S", "E", "I" >>,
      << "P", "P", "L" >>, << "M", "O", "S", "B" >>, << "A", "L", "M" >>,
      << "S", "H", "U" >>, << "N", "I", "E" >>, << "A", "L", "S" >>,
      << "S", "K", "M" >>, << "S", "A", "S" >> }

\* is_valid_hvdc_vendor(vendor, extended_mode=True); vendor = str(p3).upper() if p3 else None
is_valid_hvdc_vendor(vendor_code) ==
    IF vendor_code = NoPart \/ vendor_code = << >> THEN FALSE
    ELSE UpperStr(Strip(vendor_code)) \in VENDOR_EXTENDED

(***************************************************************************)
(* Candidate pool                                                          *)
(***************************************************************************)
\* rows of df_all (1-based positions) selected by the boolean mask
PoolMask(df_all, expanded, p) ==
    { i \in 1..Len(df_all) :
        \/ df_all[i] \in expanded
        \/ LET q == extract_parts(df_all[i])
           IN  PartEq(q[1], p[1]) /\ PartEq(q[2], p[2]) /\ PartEq(q[3], p[3])
               /\ PartEq(q[4], p[4]) }

\* _build_candidate_pool as build_hvdc_code_match calls it: the invoice rows
\* carry only the columns of `need`, so inv_code_row.get("HVDC CODE i") is None
build_candidate_pool(df_all, raw_code) ==
    LET e == expand_combined_codes(raw_code)
        p == [i \in 1..4 |-> NoPart]
    IN  IF e.raised THEN [raised |-> TRUE, cand |-> {}, expanded |-> {}]
        ELSE [raised |-> FALSE, cand |-> PoolMask(df_all, e.value, p), expanded |-> e.value]

\* main matching loop: expansion, invoice parts from extract_parts(df_inv),
\* the mask, then the vendor filter (USE_MONTH_FILTER is False)
MainCandidatePool(df_all, raw_code) ==
    LET e == expand_combined_codes(raw_code)
        p == extract_parts(raw_code)
    IN  IF e.raised THEN [raised |-> TRUE, cand |-> {}, expanded |-> {}]
        ELSE [raised |-> FALSE,
              cand |-> IF is_valid_hvdc_vendor(p[3])
                       THEN PoolMask(df_all, e.value, p) ELSE {},
              expanded |-> e.value]

(***************************************************************************)
(* Numeric helpers and program constants                                   *)
(***************************************************************************)
\* TOL = 0.10 in units of 0.05
TOL == 2

MAX_EXACT_N == 18

\* default of the max_iter parameter of robust_greedy_local
MAX_ITER == 300

\* Python None for an absent sum; a present sum v is << v >>
None == << >>

Abs(x) == IF x < 0 THEN -x ELSE x

\* the element of a one-element set; { F(x) : x \in {e} } computes e once
\* before F uses it
Only(S) == CHOOSE y \in S : TRUE

\* close2 with the boundary left out
close2_strict(a, b, tol) == Abs(a - b) < tol

close2(a, b, tol) == Abs(a - b) <= tol

RECURSIVE SumGw(_, _)
\* values_gw[indices].sum()
SumGw(items, idx) ==
    IF idx = << >> THEN 0 ELSE items[Head(idx)].gw + SumGw(items, Tail(idx))

RECURSIVE SumCbm(_, _)
\* values_cbm[indices].sum()
SumCbm(items, idx) ==
    IF idx = << >> THEN 0 ELSE items[Head(idx)].cbm + SumCbm(items, Tail(idx))

\* cand_df[["G.W(kgs)", "CBM"]]: the weight and volume columns of the rows
GwCbmColumns(df) == [i \in 1..Len(df) |-> [gw |-> df[i].gw, cbm |-> df[i].cbm]]

(***************************************************************************)
(* explode_by_pkg                                                          *)
(***************************************************************************)
\* UnitRows without the division of the totals by the package count
UnitRows_undivided(idx, row) ==
    LET pkg_count == row.Pkg
    IN  IF pkg_count <= 0 THEN << >>
        ELSE [pkg_idx \in 1..pkg_count |->
                [Original_Index |-> idx, Pkg_Unit |-> pkg_idx, Pkg |-> 1,
                 gw |-> row.gw, cbm |-> row.cbm]]

\* the pkg_count unit rows of one record; weights are fixed-point and the
\* input records have totals divisible by their package count
UnitRows(idx, row) ==
    LET pkg_count == row.Pkg
    IN  IF pkg_count <= 0 THEN << >>
        ELSE [pkg_idx \in 1..pkg_count |->
                [Original_Index |-> idx, Pkg_Unit |-> pkg_idx, Pkg |-> 1,
                 gw |-> row.gw \div pkg_count, cbm |-> row.cbm \div pkg_count]]

RECURSIVE ExplodeFrom(_, _)
ExplodeFrom(df, idx) ==
    IF idx > Len(df) THEN << >>
    ELSE UnitRows(idx, df[idx]) \o ExplodeFrom(df, idx + 1)

explode_by_pkg(df_subset) == ExplodeFrom(df_subset, 1)

(***************************************************************************)
(* exact_subset_match: itertools.combinations in lexicographic order,      *)
(* first fit.  Positions are 1-based.                                      *)
(***************************************************************************)
NotFound == [found |-> FALSE, picked |-> << >>, sum_gw |-> None, sum_cbm |-> None]

RECURSIVE CombScan_last_fit(_, _, _, _, _, _, _)
\* CombScan that keeps scanning and returns the last combination within
\* tolerance instead of the first
CombScan_last_fit(items, prefix, c, kk, gw_t, cbm_t, tol) ==
    IF Len(prefix) = kk
    THEN LET gw  == SumGw(items, prefix)
             cbm == SumCbm(items, prefix)
         IN  IF close2(gw, gw_t, tol) /\ close2(cbm, cbm_t, tol)
             THEN [found |-> TRUE, picked |-> prefix, sum_gw |-> << gw >>,
                   sum_cbm |-> << cbm >>]
             ELSE NotFound
    ELSE IF c + (kk - Len(prefix)) - 1 > Len(items) THEN NotFound
    ELSE LET Rest(r) == IF r.found THEN r
                        ELSE CombScan_last_fit(items, Append(prefix, c), c + 1, kk,
                                               gw_t, cbm_t, tol)
         IN  Only({ Rest(r) : r \in { CombScan_last_fit(items, prefix, c + 1, kk,
                                                          gw_t, cbm_t, tol) } })

RECURSIVE CombScan(_, _, _, _, _, _, _)
\* "for comb in combinations(range(n), kk)": the combinations that start with
\* prefix and go on with a position >= c, in lexicographic order, up to the
\* first one whose sums are both within tolerance
CombScan(items, prefix, c, kk, gw_t, cbm_t, tol) ==
    IF Len(prefix) = kk
    THEN LET gw  == SumGw(items, prefix)
             cbm == SumCbm(items, prefix)
         IN  IF close2(gw, gw_t, tol) /\ close2(cbm, cbm_t, tol)
             THEN [found |-> TRUE, picked |-> prefix, sum_gw |-> << gw >>,
                   sum_cbm |-> << cbm >>]
             ELSE NotFound
    ELSE IF c + (kk - Len(prefix)) - 1 > Len(items) THEN NotFound
    ELSE LET Rest(r) == IF r.found THEN r
                        ELSE CombScan(items, prefix, c + 1, kk, gw_t, cbm_t, tol)
         IN  Only({ Rest(r) : r \in { CombScan(items, Append(prefix, c), c + 1, kk,
                                                 gw_t, cbm_t, tol) } })

exact_subset_match(pkgs_df, kk, gw_t, cbm_t, tol) ==
    CombScan(pkgs_df, << >>, 1, kk, gw_t, cbm_t, tol)

(***************************************************************************)
(* robust_greedy_local                                                     *)
(*                                                                         *)
(* Scores are compared exactly as rationals.  With volumes and targets of  *)
(* at least one unit np.clip(values_cbm, 1e-6, None), max(gw_tgt, 1e-6)    *)
(* and max(cbm_tgt, 1e-6) leave their argument unchanged.                  *)
(***************************************************************************)
RECURSIVE ColSum(_, _)
ColSum(values, col) ==
    IF values = << >> THEN 0
    ELSE (IF col = "gw" THEN Head(values).gw ELSE Head(values).cbm) + ColSum(Tail(values), col)

\* combined_score[i] = 0.6 * score2[i] + 0.4 * score[i], as the fraction
\* num / (den * 10 * n * gw_tgt * cbm_tgt)
CombinedScore(values, i, gw_t, cbm_t) ==
    LET n  == Len(values)
        w  == values[i].gw
        c  == values[i].cbm
        s2 == Abs(w * cbm_t - gw_t * c)            \* |ratio - ratio_target| * c * cbm_tgt
        dg == Abs(n * w - ColSum(values, "gw"))    \* |gw_norm - mean| * n * gw_tgt
        dc == Abs(n * c - ColSum(values, "cbm"))   \* |cbm_norm - mean| * n * cbm_tgt
    IN  [num |-> 6 * s2 * gw_t * n + 4 * (dg * cbm_t + dc * gw_t) * c, den |-> c]

ScoreLess(a, b) == a.num * b.den < b.num * a.den

RECURSIVE ArgsortPrefixes(_, _, _)
\* np.argsort(combined_score)[:kk]: the default sort is not stable, so items
\* of equal score may come out in any order
ArgsortPrefixes(score, rem, kk) ==
    IF kk = 0 THEN { << >> }
    ELSE LET lowest == { i \in rem : \A j \in rem : ~ScoreLess(score[j], score[i]) }
         IN  UNION { { << i >> \o rest : rest \in ArgsortPrefixes(score, rem \ {i}, kk - 1) }
                     : i \in lowest }

InitialSelections(values, kk, gw_t, cbm_t) ==
    UNION { ArgsortPrefixes(score, 1..Len(values), kk) :
              score \in { [i \in 1..Len(values) |->
                             CombinedScore(values, i, gw_t, cbm_t)] } }

\* calculate_error without the absolute values
calculate_error_signed(values, indices, gw_t, cbm_t) ==
    (SumGw(values, indices) - gw_t) + (SumCbm(values, indices) - cbm_t)

\* calculate_error(indices); indices is never empty because kk >= 1
calculate_error(values, indices, gw_t, cbm_t) ==
    Abs(SumGw(values, indices) - gw_t) + Abs(SumCbm(values, indices) - cbm_t)

SeqRange(q) == { q[i] : i \in 1..Len(q) }

\* Trial with trial_indices an alias of current_indices instead of a copy
Trial_aliased(cur, i, in_idx) ==
    [trial |-> [cur EXCEPT ![i] = in_idx], current |-> [cur EXCEPT ![i] = in_idx]]

\* "trial_indices = current_indices.copy(); trial_indices[i] = in_idx": the
\* trial selection, and current_indices after the two statements
Trial(cur, i, in_idx) ==
    [trial |-> [cur EXCEPT ![i] = in_idx], current |-> cur]

RECURSIVE BestReplacement_no_skip(_, _, _, _, _, _, _, _)
\* BestReplacement without "if in_idx in current_set: continue"
BestReplacement_no_skip(values, cur, i, in_idx, best_local_error, best_replacement, gw_t, cbm_t) ==
    IF in_idx > Len(values)
    THEN [err |-> best_local_error, rep |-> best_replacement, current |-> cur]
    ELSE LET Try(t, trial_error) ==
                 IF trial_error < best_local_error
                 THEN IF trial_error = 0
                      THEN [err |-> trial_error, rep |-> in_idx, current |-> t.current]
                      ELSE BestReplacement_no_skip(values, t.current, i, in_idx + 1,
                                                   trial_error, in_idx, gw_t, cbm_t)
                 ELSE BestReplacement_no_skip(values, t.current, i, in_idx + 1,
                                              best_local_error, best_replacement, gw_t, cbm_t)
         IN  Only({ Only({ Try(t, trial_error) :
                             trial_error \in { calculate_error(values, t.trial, gw_t, cbm_t) } }) :
                      t \in { Trial(cur, i, in_idx) } })

RECURSIVE BestReplacement(_, _, _, _, _, _, _, _)
\* "for in_idx in range(n)": rep = 0 is best_replacement = None; current is
\* current_indices after the trials
BestReplacement(values, cur, i, in_idx, best_local_error, best_replacement, gw_t, cbm_t) ==
    IF in_idx > Len(values)
    THEN [err |-> best_local_error, rep |-> best_replacement, current |-> cur]
    ELSE IF in_idx \in SeqRange(cur)
    THEN BestReplacement(values, cur, i, in_idx + 1, best_local_error, best_replacement,
                         gw_t, cbm_t)
    ELSE LET Try(t, trial_error) ==
                 IF trial_error < best_local_error
                 THEN IF trial_error = 0
                      THEN [err |-> trial_error, rep |-> in_idx, current |-> t.current]
                      ELSE BestReplacement(values, t.current, i, in_idx + 1, trial_error,
                                           in_idx, gw_t, cbm_t)
                 ELSE BestReplacement(values, t.current, i, in_idx + 1, best_local_error,
                                      best_replacement, gw_t, cbm_t)
         IN  Only({ Only({ Try(t, trial_error) :
                             trial_error \in { calculate_error(values, t.trial, gw_t, cbm_t) } }) :
                      t \in { Trial(cur, i, in_idx) } })

\* TargetReached with "or" in place of "and"
TargetReached_either(values, indices, gw_t, cbm_t, tol) ==
    close2(SumGw(values, indices), gw_t, tol) \/ close2(SumCbm(values, indices), cbm_t, tol)

\* the test that ends the search with success: both sums within tolerance
TargetReached(values, indices, gw_t, cbm_t, tol) ==
    close2(SumGw(values, indices), gw_t, tol) /\ close2(SumCbm(values, indices), cbm_t, tol)

\* PassFrom that tries the first selected position only
PassFrom_first_position(values, cur, i, best_error, improved, gw_t, cbm_t, tol) ==
    LET br  == BestReplacement(values, cur, 1, 1, best_error, 0, gw_t, cbm_t)
        nxt == [br.current EXCEPT ![1] = br.rep]
    IN  IF br.rep # 0 /\ br.err < best_error
        THEN [returned |-> TargetReached(values, nxt, gw_t, cbm_t, tol), current |-> nxt,
              best_error |-> br.err, improved |-> TRUE]
        ELSE [returned |-> FALSE, current |-> br.current, best_error |-> best_error,
              improved |-> improved]

RECURSIVE PassFrom(_, _, _, _, _, _, _, _)
\* "for i in range(k)" of one pass, from position i on
PassFrom(values, cur, i, best_error, improved, gw_t, cbm_t, tol) ==
    IF i > Len(cur)
    THEN [returned |-> FALSE, current |-> cur, best_error |-> best_error, improved |-> improved]
    ELSE LET Apply(br, nxt) ==
                 IF br.rep # 0 /\ br.err < best_error
                 THEN IF TargetReached(values, nxt, gw_t, cbm_t, tol)
                      THEN [returned |-> TRUE, current |-> nxt, best_error |-> br.err,
                            improved |-> TRUE]
                      ELSE PassFrom(values, nxt, i + 1, br.err, TRUE, gw_t, cbm_t, tol)
                 ELSE PassFrom(values, br.current, i + 1, best_error, improved, gw_t, cbm_t,
                               tol)
         IN  Only({ Only({ Apply(br, nxt) :
                             nxt \in { IF br.rep # 0 THEN [br.current EXCEPT ![i] = br.rep]
                                       ELSE br.current } }) :
                      br \in { BestReplacement(values, cur, i, 1, best_error, 0,
                                               gw_t, cbm_t) } })

\* one iteration of "for iteration in range(max_iter)"
LocalSearchPassResult(values, best_indices, best_error, gw_t, cbm_t, tol) ==
    PassFrom(values, best_indices, 1, best_error, FALSE, gw_t, cbm_t, tol)

\* a loop with neither the break nor the iteration cap
SearchNeverStops(improved, passes, max_iter) == TRUE

\* the loop goes on after a pass: "if improved ... else break" and range(max_iter)
SearchContinues(improved, passes, max_iter) == improved /\ passes < max_iter

RglIdle ==
    [pc |-> "idle", caller |-> "none", values |-> << >>, best_indices |-> << >>,
     best_error |-> 0, iteration |-> 0, exit |-> "none",
     ret |-> [success |-> FALSE, picked |-> << >>, sum_gw |-> None, sum_cbm |-> None]]

RglReturn(st, exit, success, picked) ==
    [st EXCEPT !.pc = "returned", !.exit = exit,
               !.ret = [success |-> success, picked |-> picked,
                        sum_gw |-> << SumGw(st.values, picked) >>,
                        sum_cbm |-> << SumCbm(st.values, picked) >>]]

\* the states robust_greedy_local can be in after its initial selection
RobustCall(values, kk, gw_t, cbm_t, tol, caller) ==
    LET st0 == [RglIdle EXCEPT !.caller = caller, !.values = values]
    IN  IF Len(values) < kk \/ kk <= 0
        THEN { [st0 EXCEPT !.pc = "returned", !.exit = "guard"] }
        ELSE { IF TargetReached(values, sel, gw_t, cbm_t, tol)
               THEN RglReturn(st0, "initial", TRUE, sel)
               ELSE [st0 EXCEPT !.pc = "search", !.best_indices = sel,
                                !.best_error = calculate_error(values, sel, gw_t, cbm_t)]
               : sel \in InitialSelections(values, kk, gw_t, cbm_t) }

\* the state of robust_greedy_local after one more pass of the local search
RobustPass(st, gw_t, cbm_t, tol) ==
    LET passes == st.iteration + 1
        st1    == [st EXCEPT !.iteration = passes]
        After(p) ==
            IF p.returned THEN RglReturn(st1, "early", TRUE, p.current)
            ELSE IF SearchContinues(p.improved, passes, MAX_ITER)
            THEN [st1 EXCEPT !.best_indices = p.current, !.best_error = p.best_error]
            ELSE LET best == IF p.improved THEN p.current ELSE st.best_indices
                 IN  RglReturn([st1 EXCEPT !.best_indices = best,
                                           !.best_error = p.best_error],
                               "final", TargetReached(st.values, best, gw_t, cbm_t, tol),
                               best)
    IN  Only({ After(p) : p \in { LocalSearchPassResult(st.values, st.best_indices,
                                                        st.best_error, gw_t, cbm_t, tol) } })

(***************************************************************************)
(* State                                                                   *)
(***************************************************************************)
VARIABLES
    raw_code,    \* the invoice line's raw identifier
    df_all,      \* the "HVDC CODE" column of the shipment records
    ipc,         \* position of the identifier / candidate pool run
    expanded,    \* what expand_combined_codes(raw_code) returned
    pool_safe,   \* what _build_candidate_pool returned
    pool_main,   \* the candidate pool of the main matching loop
    entry,       \* the matching function that was called
    cand_df,     \* its candidate rows: Pkg, G.W(kgs), CBM
    target,      \* k, gw_tgt, cbm_tgt
    mpc,         \* position of the matching call
    units,       \* the rows explode_by_pkg produced
    result1,     \* what find_subset_match returned
    result2,     \* what find_subset_match_exploded returned
    result,      \* what the called function returned
    rgl,         \* the running robust_greedy_local call
    wh_name,     \* a warehouse name as it arrives
    wpc,         \* position of the warehouse name run
    wh,          \* what normalization, mode and rate lookup returned for wh_name
    sys_row,     \* the system row of one (month, warehouse): Month, Warehouse, avg_sqm
    invoice_df,  \* the invoice rows: Month, Warehouse, Invoice_Amount, Invoice_Rate
    bpc,         \* position of the billing run
    passthrough, \* the (month, warehouse) -> amount dict built from the invoice
    bill,        \* the Monthly_Charges_Match row of sys_row
    inv,         \* the invoice line targets of a code matching run
    all_df,      \* the shipment records of that run
    rpc,         \* position of the run
    rows,        \* the result rows appended so far, by target
    code_match_df, \* the HVDC_Code_Match table the run ends with
    sku_df,      \* the SKU master rows of a monthly report run
    target_month, \* the month the report is asked for
    opc,         \* position of the monthly report run
    timeline_df, \* the events calculate_flow_timeline produced
    occupancy_df \* what calculate_monthly_warehouse_occupancy returned

idVars == << raw_code, df_all, ipc, expanded, pool_safe, pool_main >>

matchVars == << entry, cand_df, target, mpc, units, result1, result2, result, rgl >>

nameVars == << wh_name, wpc, wh >>

billVars == << sys_row, invoice_df, bpc, passthrough, bill >>

runVars == << inv, all_df, rpc, rows, code_match_df >>

occVars == << sku_df, target_month, opc, timeline_df, occupancy_df >>

vars == << raw_code, df_all, ipc, expanded, pool_safe, pool_main,
           entry, cand_df, target, mpc, units, result1, result2, result, rgl,
           wh_name, wpc, wh, sys_row, invoice_df, bpc, passthrough, bill,
           inv, all_df, rpc, rows, code_match_df,
           sku_df, target_month, opc, timeline_df, occupancy_df >>

(***************************************************************************)
(* Bounds and input sets                                                   *)
(***************************************************************************)
MaxTokens == 2

MaxRows == 2

MaxRecords == 2

MaxK == 3

RECURSIVE SeqsUpTo(_, _)
\* the sequences over S of length 0..n
SeqsUpTo(S, n) ==
    IF n = 0 THEN { << >> }
    ELSE LET shorter == SeqsUpTo(S, n - 1)
         IN  shorter \cup { Append(q, x) : q \in shorter, x \in S }

BaseCodes ==
    { << "X", "-", "0", "0", "8", "7" >>,
      << "X", "-", "0", "3", "2", "5", "-", "1" >>,
      << "X", "-", "0", "3", "2", "5", "-", "A" >>,
      << "X", "-", "A", "B" >>,
      << "A", "B" >>,
      << "X", "-", "A", "-", "H", "E", "-", "0", "3", "2", "5" >>,
      << "X", "-", "A", "-", "B", "B", "-", "0", "3", "2", "5" >> }

Tokens ==
    { << "9", "0" >>,
      << "0", "3", "2", "5", "-", "2" >>,
      << "A", "B" >>,
      << SUP2 >>,
      << " ", "7" >> }

RECURSIVE JoinTokens(_)
JoinTokens(toks) ==
    IF toks = << >> THEN << >> ELSE << "," >> \o Head(toks) \o JoinTokens(Tail(toks))

RawCodes == { b \o JoinTokens(toks) : b \in BaseCodes, toks \in SeqsUpTo(Tokens, MaxTokens) }

RecordCodes ==
    { << "X", "-", "0", "0", "8", "7" >>,
      << "X", "-", "0", "0", "9", "0" >>,
      << "X", "-", "0", "3", "2", "5", "-", "2" >>,
      << "X", "-", "A", "-", "H", "E", "-", "0", "3", "2", "5", "-", "1" >>,
      << "x", "-", "A", "-", "H", "E", "-", "0", "3", "2", "5" >>,
      << "X", "-", "A", "-", "B", "B", "-", "0", "3", "2", "5" >> }

RecordTemplates ==
    { [Pkg |-> 1,  gw |-> 4,  cbm |-> 1],
      [Pkg |-> 2,  gw |-> 10, cbm |-> 4],
      [Pkg |-> 0,  gw |-> 4,  cbm |-> 1],
      [Pkg |-> 3,  gw |-> 9,  cbm |-> 6],
      [Pkg |-> -1, gw |-> 5,  cbm |-> 3] }

\* n records of p packages each whose unit weights and volumes differ
QuadPool(n, p) ==
    [i \in 1..n |-> [Pkg |-> p, gw |-> p * (1 + (((i - 1) * (i - 1)) % 13)),
                     cbm |-> p * (1 + ((i - 1) % 4))]]

LargePools ==
    { QuadPool(MAX_EXACT_N, 1), QuadPool(MAX_EXACT_N + 1, 1), QuadPool(MAX_EXACT_N + 2, 1),
      QuadPool((MAX_EXACT_N + 2) \div 2, 2) }

CandPools == SeqsUpTo(RecordTemplates, MaxRecords) \cup LargePools

GwTargets == {1, 8, 10, 21}

CbmTargets == {2, 5, 11}

Targets == [k : -1..MaxK, gw_tgt : GwTargets, cbm_tgt : CbmTargets]

Entries ==
    { "explode_by_pkg", "find_subset_match", "find_subset_match_exploded",
      "enhanced_subset_matching" }

NoResult ==
    [found |-> FALSE, picked |-> << >>, sum_gw |-> None, sum_cbm |-> None, method |-> "unset"]

NoPool == [raised |-> FALSE, cand |-> {}, expanded |-> {}]

IdIdle ==
    /\ raw_code = << >> /\ df_all = << >> /\ ipc = "off"
    /\ expanded = [raised |-> FALSE, value |-> {}]
    /\ pool_safe = NoPool /\ pool_main = NoPool

MatchIdle ==
    /\ entry = "none" /\ cand_df = << >>
    /\ target = [k |-> 0, gw_tgt |-> 1, cbm_tgt |-> 1]
    /\ mpc = "off" /\ units = << >>
    /\ result1 = NoResult /\ result2 = NoResult /\ result = NoResult /\ rgl = RglIdle

NameIdle == wh_name = << >> /\ wpc = "off" /\ wh = << >>

BillIdle ==
    /\ sys_row = << >> /\ invoice_df = << >> /\ bpc = "off"
    /\ passthrough = << >> /\ bill = << >>

RunIdle ==
    /\ inv = << >> /\ all_df = << >> /\ rpc = "off"
    /\ rows = << >> /\ code_match_df = << >>

OccIdle ==
    /\ sku_df = << >> /\ target_month = << >> /\ opc = "off"
    /\ timeline_df = << >> /\ occupancy_df = << >>

(***************************************************************************)
(* Identifier expansion and candidate pool of one invoice line             *)
(***************************************************************************)
IdInit ==
    /\ raw_code \in RawCodes
    /\ df_all \in SeqsUpTo(RecordCodes, MaxRows)
    /\ ipc = "start"
    /\ expanded = [raised |-> FALSE, value |-> {}]
    /\ pool_safe = NoPool
    /\ pool_main = NoPool
    /\ MatchIdle /\ NameIdle /\ BillIdle /\ RunIdle /\ OccIdle

ExpandCombinedCodes ==
    /\ ipc = "start"
    /\ expanded' = expand_combined_codes(raw_code)
    /\ ipc' = "expanded"
    /\ UNCHANGED << raw_code, df_all, pool_safe, pool_main >>
    /\ UNCHANGED << matchVars, nameVars, billVars, runVars, occVars >>

BuildCandidatePool ==
    /\ ipc = "expanded"
    /\ pool_safe' = build_candidate_pool(df_all, raw_code)
    /\ ipc' = "pooled"
    /\ UNCHANGED << raw_code, df_all, expanded, pool_main >>
    /\ UNCHANGED << matchVars, nameVars, billVars, runVars, occVars >>

MainLoopCandidatePool ==
    /\ ipc = "pooled"
    /\ pool_main' = MainCandidatePool(df_all, raw_code)
    /\ ipc' = "done"
    /\ UNCHANGED << raw_code, df_all, expanded, pool_safe >>
    /\ UNCHANGED << matchVars, nameVars, billVars, runVars, occVars >>

IdNext ==
    \/ ExpandCombinedCodes
    \/ BuildCandidatePool
    \/ MainLoopCandidatePool

SpecCodes == IdInit /\ [][IdNext]_vars

(***************************************************************************)
(* Subset matching of one invoice line target                              *)
(***************************************************************************)
MatchInit ==
    /\ entry \in Entries
    /\ cand_df \in CandPools
    /\ target \in Targets
    /\ entry = "explode_by_pkg" => target = [k |-> 1, gw_tgt |-> 1, cbm_tgt |-> 2]
    /\ mpc = "call"
    /\ units = << >>
    /\ result1 = NoResult
    /\ result2 = NoResult
    /\ result = NoResult
    /\ rgl = RglIdle
    /\ IdIdle /\ NameIdle /\ BillIdle /\ RunIdle /\ OccIdle

MatchResult(found, picked, sum_gw, sum_cbm, method) ==
    [found |-> found, picked |-> picked, sum_gw |-> sum_gw, sum_cbm |-> sum_cbm,
     method |-> method]

\* find_subset_match returns r to its caller
ReturnFindSubsetMatch(r) ==
    /\ result1' = r
    /\ IF entry = "find_subset_match"
       THEN mpc' = "done" /\ result' = r
       ELSE mpc' = "s2" /\ result' = result

\* find_subset_match_exploded returns r to its caller
ReturnFindSubsetMatchExploded(r) ==
    /\ result2' = r
    /\ IF entry = "find_subset_match_exploded"
       THEN mpc' = "done" /\ result' = r
       ELSE mpc' = "pick" /\ result' = result

\* RobustResult that tags every result robust-greedy-local, unit-level or not
RobustResult_one_tag(ret, method) ==
    [found |-> ret.success, picked |-> ret.picked, sum_gw |-> ret.sum_gw,
     sum_cbm |-> ret.sum_cbm, method |-> "robust-greedy-local"]

\* the dict each matcher builds from what robust_greedy_local returned
RobustResult(ret, method) ==
    MatchResult(ret.success, ret.picked, ret.sum_gw, ret.sum_cbm, method)

\* InvalidCall without the test of the pool size
InvalidCall_k_only(N, kk) == kk <= 0

\* "if N < k or k <= 0" of find_subset_match
InvalidCall(N, kk) == N < kk \/ kk <= 0

ExplodeByPkg ==
    /\ mpc = "call" /\ entry = "explode_by_pkg"
    /\ units' = explode_by_pkg(cand_df)
    /\ mpc' = "done"
    /\ UNCHANGED << entry, cand_df, target, result1, result2, result, rgl >>
    /\ UNCHANGED << idVars, nameVars, billVars, runVars, occVars >>

FindSubsetMatch ==
    /\ \/ mpc = "call" /\ entry = "find_subset_match"
       \/ mpc = "s1"
    /\ \E pkgs_df \in { GwCbmColumns(cand_df) } :
         LET N == Len(pkgs_df)
         IN  IF InvalidCall(N, target.k)
           THEN /\ ReturnFindSubsetMatch(MatchResult(FALSE, << >>, None, None, "invalid"))
                /\ rgl' = rgl
           ELSE IF N <= MAX_EXACT_N
           THEN \E e \in { exact_subset_match(pkgs_df, target.k, target.gw_tgt,
                                               target.cbm_tgt, TOL) } :
                    /\ ReturnFindSubsetMatch(
                          MatchResult(e.found, e.picked, e.sum_gw, e.sum_cbm, "exact"))
                    /\ rgl' = rgl
           ELSE \E st \in RobustCall(pkgs_df, target.k, target.gw_tgt, target.cbm_tgt, TOL,
                                     "find_subset_match") :
                    /\ rgl' = st
                    /\ IF st.pc = "returned"
                       THEN ReturnFindSubsetMatch(RobustResult(st.ret, "robust-greedy-local"))
                       ELSE mpc' = "search" /\ UNCHANGED << result1, result >>
    /\ UNCHANGED << entry, cand_df, target, units, result2 >>
    /\ UNCHANGED << idVars, nameVars, billVars, runVars, occVars >>

FindSubsetMatchExploded ==
    /\ \/ mpc = "call" /\ entry = "find_subset_match_exploded"
       \/ mpc = "s2"
    /\ IF cand_df = << >> \/ target.k <= 0
       THEN /\ ReturnFindSubsetMatchExploded(
                  MatchResult(FALSE, << >>, None, None, "no-candidate-exploded"))
            /\ UNCHANGED << units, rgl >>
       ELSE \E u \in { explode_by_pkg(cand_df) } :
                /\ units' = u
                /\ IF Len(u) = 0
                   THEN /\ ReturnFindSubsetMatchExploded(
                              MatchResult(FALSE, << >>, None, None, "no-units-exploded"))
                        /\ rgl' = rgl
                   ELSE IF Len(u) <= MAX_EXACT_N
                   THEN \E e \in { exact_subset_match(u, target.k, target.gw_tgt,
                                                       target.cbm_tgt, TOL) } :
                            /\ ReturnFindSubsetMatchExploded(
                                  MatchResult(e.found, e.picked, e.sum_gw, e.sum_cbm,
                                              "exact-exploded"))
                            /\ rgl' = rgl
                   ELSE \E st \in RobustCall(u, target.k, target.gw_tgt, target.cbm_tgt, TOL,
                                             "find_subset_match_exploded") :
                            /\ rgl' = st
                            /\ IF st.pc = "returned"
                               THEN ReturnFindSubsetMatchExploded(
                                        RobustResult(st.ret, "robust-greedy-local-exploded"))
                               ELSE mpc' = "search" /\ UNCHANGED << result2, result >>
    /\ UNCHANGED << entry, cand_df, target, result1 >>
    /\ UNCHANGED << idVars, nameVars, billVars, runVars, occVars >>

\* one pass of the local search of the running robust_greedy_local call
LocalSearchPass ==
    /\ mpc = "search" /\ rgl.pc = "search"
    /\ \E st \in { RobustPass(rgl, target.gw_tgt, target.cbm_tgt, TOL) } :
           /\ rgl' = st
           /\ IF st.pc = "returned"
              THEN IF st.caller = "find_subset_match"
                   THEN /\ ReturnFindSubsetMatch(RobustResult(st.ret, "robust-greedy-local"))
                        /\ result2' = result2
                   ELSE /\ ReturnFindSubsetMatchExploded(
                              RobustResult(st.ret, "robust-greedy-local-exploded"))
                        /\ result1' = result1
              ELSE UNCHANGED << mpc, result1, result2, result >>
    /\ UNCHANGED << entry, cand_df, target, units >>
    /\ UNCHANGED << idVars, nameVars, billVars, runVars, occVars >>

\* enhanced_subset_matching up to its call of find_subset_match
EnhancedSubsetMatching ==
    /\ mpc = "call" /\ entry = "enhanced_subset_matching"
    /\ IF cand_df = << >> \/ target.k <= 0
       THEN /\ result' = MatchResult(FALSE, << >>, None, None, "no-candidate")
            /\ mpc' = "done"
       ELSE /\ result' = result
            /\ mpc' = "s1"
    /\ UNCHANGED << entry, cand_df, target, units, result1, result2, rgl >>
    /\ UNCHANGED << idVars, nameVars, billVars, runVars, occVars >>

\* "exact" in r["method"]
IsExactMethod(method) == method \in {"exact", "exact-exploded"}

\* calculate_total_error of a found result
calculate_total_error(r, gw_t, cbm_t) ==
    Abs(r.sum_gw[1] - gw_t) + Abs(r.sum_cbm[1] - cbm_t)

\* EnhancedBest that returns the record-level result whatever the unit-level
\* search found
EnhancedBest_records_only(r1, r2, gw_t, cbm_t) == r1

\* the choice enhanced_subset_matching makes between result1 and result2
EnhancedBest(r1, r2, gw_t, cbm_t) ==
    LET results       == SelectSeq(<< r1, r2 >>, LAMBDA r : r.found)
        exact_results == SelectSeq(results, LAMBDA r : IsExactMethod(r.method))
    IN  IF results = << >> THEN r1
        ELSE IF exact_results # << >> THEN exact_results[1]
        ELSE IF Len(results) = 1 THEN results[1]
        ELSE IF calculate_total_error(results[2], gw_t, cbm_t)
                  < calculate_total_error(results[1], gw_t, cbm_t)
             THEN results[2] ELSE results[1]

\* enhanced_subset_matching after both strategies returned
EnhancedSelect ==
    /\ mpc = "pick"
    /\ result' = EnhancedBest(result1, result2, target.gw_tgt, target.cbm_tgt)
    /\ mpc' = "done"
    /\ UNCHANGED << entry, cand_df, target, units, result1, result2, rgl >>
    /\ UNCHANGED << idVars, nameVars, billVars, runVars, occVars >>

MatchNext ==
    \/ ExplodeByPkg
    \/ FindSubsetMatch
    \/ FindSubsetMatchExploded
    \/ LocalSearchPass
    \/ EnhancedSubsetMatching
    \/ EnhancedSelect

Spec == MatchInit /\ [][MatchNext]_vars

\* robust_greedy_local is a synchronous loop: a search that can make its next
\* pass does make it
FairSpec == Spec /\ WF_vars(LocalSearchPass)

(***************************************************************************)
(* Properties                                                              *)
(***************************************************************************)
RECURSIVE KSubsets(_, _)
\* the kk-element subsets of 1..n
KSubsets(n, kk) ==
    IF kk = 0 THEN { {} }
    ELSE IF n < kk THEN {}
    ELSE KSubsets(n - 1, kk) \cup { S \cup {n} : S \in KSubsets(n - 1, kk - 1) }

RECURSIVE SetSum(_, _, _)
SetSum(items, S, col) ==
    IF S = {} THEN 0
    ELSE LET i == CHOOSE x \in S : TRUE
         IN  (IF col = "gw" THEN items[i].gw ELSE items[i].cbm) + SetSum(items, S \ {i}, col)

\* both sums of the items at positions S are within 0.10 (inclusive) of the targets
WithinTolerance(items, S, gw_t, cbm_t) ==
    /\ Abs(SetSum(items, S, "gw") - gw_t) <= TOL
    /\ Abs(SetSum(items, S, "cbm") - cbm_t) <= TOL

\* |weight sum - target weight| + |volume sum - target volume|
TotalError(items, S, gw_t, cbm_t) ==
    Abs(SetSum(items, S, "gw") - gw_t) + Abs(SetSum(items, S, "cbm") - cbm_t)

\* C1: on the exact path of find_subset_match (n <= 18, 1 <= k <= n) the
\* result is found exactly when some k-subset of the pool has both sums
\* within the tolerance (inclusive), and then exactly k distinct items are
\* picked whose sums, which are the reported sums, are within the tolerance.
C1_ExactFindsSubsetIffOneExists ==
    result1.method = "exact" =>
        LET items == GwCbmColumns(cand_df)
            some  == \E S \in KSubsets(Len(items), target.k) :
                         WithinTolerance(items, S, target.gw_tgt, target.cbm_tgt)
            S0    == SeqRange(result1.picked)
        IN  /\ result1.found <=> some
            /\ result1.found =>
                 /\ Len(result1.picked) = target.k
                 /\ Cardinality(S0) = target.k
                 /\ S0 \subseteq 1..Len(items)
                 /\ WithinTolerance(items, S0, target.gw_tgt, target.cbm_tgt)
                 /\ result1.sum_gw = << SetSum(items, S0, "gw") >>
                 /\ result1.sum_cbm = << SetSum(items, S0, "cbm") >>

\* the exact path found a subset in a pool of 18 records whose weight sum is
\* exactly the tolerance away from the target
C1_Witness ==
    /\ result1.method = "exact" /\ result1.found
    /\ Len(cand_df) = MAX_EXACT_N /\ target.k >= 2
    /\ Abs(result1.sum_gw[1] - target.gw_tgt) = TOL

\* C2: a robust_greedy_local call on more than 18 items never makes more
\* than 300 local-search passes, returns a success flag that is true or
\* false, and every search that started does return: each pass is counted,
\* and the search goes on to another pass only when fewer than 300 passes
\* were made and the last one lowered the error.
C2_RobustTerminatesWithinMaxIter ==
    /\ [](/\ rgl.iteration <= MAX_ITER
          /\ rgl.pc # "idle" => Len(rgl.values) > MAX_EXACT_N
          /\ rgl.pc = "returned" => rgl.ret.success \in BOOLEAN)
    /\ [][ rgl.pc = "search" /\ rgl'.pc = "search" =>
             /\ rgl'.iteration = rgl.iteration + 1
             /\ rgl'.iteration < MAX_ITER
             /\ rgl'.best_error < rgl.best_error ]_vars
    /\ (rgl.pc = "search" ~> rgl.pc = "returned")

\* a call on 20 units with k = 3 returned after several passes
C2_Witness ==
    /\ rgl.pc = "returned" /\ rgl.caller = "find_subset_match_exploded"
    /\ Len(rgl.values) = MAX_EXACT_N + 2 /\ target.k = 3
    /\ rgl.iteration >= 2

\* the selection robust_greedy_local holds in state st
RglSelection(st) == IF st.pc = "returned" THEN st.ret.picked ELSE st.best_indices

\* C3: the total error of the selection after a local-search pass is at
\* most the total error of the selection before that pass.
C3_ErrorNeverIncreases ==
    [][ rgl.pc = "search" /\ rgl'.pc \in {"search", "returned"} =>
          TotalError(rgl'.values, SeqRange(RglSelection(rgl')), target.gw_tgt, target.cbm_tgt)
            <= TotalError(rgl.values, SeqRange(rgl.best_indices), target.gw_tgt,
                          target.cbm_tgt) ]_vars

\* two passes improved the selection and the search goes on
C3_Witness ==
    /\ rgl.pc = "search" /\ rgl.iteration >= 2
    /\ TotalError(rgl.values, SeqRange(rgl.best_indices), target.gw_tgt, target.cbm_tgt) > 0

\* the code <<...>> read as text
CodeX0087_90 == << "X", "-", "0", "0", "8", "7", ",", "9", "0" >>

CodeX0325_1_0325_2 ==
    << "X", "-", "0", "3", "2", "5", "-", "1", ",", "0", "3", "2", "5", "-", "2" >>

\* C4: "X-0087,90" expands to exactly {"X-0087", "X-0090"} and the expansion
\* of "X-0325-1,0325-2" contains both "X-0325-1" and "X-0325-2".
C4_ExpansionExamples ==
    ipc # "start" =>
        /\ raw_code = CodeX0087_90 =>
             /\ ~expanded.raised
             /\ expanded.value = { << "X", "-", "0", "0", "8", "7" >>,
                                   << "X", "-", "0", "0", "9", "0" >> }
        /\ raw_code = CodeX0325_1_0325_2 =>
             /\ ~expanded.raised
             /\ << "X", "-", "0", "3", "2", "5", "-", "1" >> \in expanded.value
             /\ << "X", "-", "0", "3", "2", "5", "-", "2" >> \in expanded.value

\* the first token of a comma-separated shorthand
BaseToken(code) == Split(RemoveChar(code, " "), ",")[1]

\* no hyphen-separated part of the token is a number
NoNumericSegment(token) ==
    \A i \in 1..Len(Split(token, "-")) : ~IsDecStr(Split(token, "-")[i])

\* C5: expand_combined_codes never raises, and for a comma-separated
\* shorthand whose base token has no numeric segment it returns the set that
\* holds the base token only.
C5_ExpandNeverRaisesBaseOnly ==
    ipc # "start" =>
        /\ ~expanded.raised
        /\ Contains(raw_code, ",") /\ NoNumericSegment(BaseToken(raw_code)) =>
             expanded.value = { BaseToken(raw_code) }

\* the first four hyphen-separated parts of an identifier
FirstFourParts(code) == SubSeq(split_hvdc_code(code), 1, 4)

\* the records whose identifier is in the expanded set or whose first four
\* parts equal the target's first four parts
ClaimedPool ==
    { i \in 1..Len(df_all) :
        \/ df_all[i] \in expanded.value
        \/ FirstFourParts(df_all[i]) = FirstFourParts(raw_code) }

\* C6: the candidate pool built for a target (by _build_candidate_pool and
\* by the main matching loop) is exactly the set of records whose identifier
\* is in the expanded set or whose first four parts equal the target's.
C6_PoolIsExactlyTheUnion ==
    ~expanded.raised =>
        /\ ipc \in {"pooled", "done"} => pool_safe.cand = ClaimedPool
        /\ ipc = "done" => pool_main.cand = ClaimedPool

\* explode_by_pkg has run on cand_df
Exploded ==
    \/ entry = "explode_by_pkg" /\ mpc = "done"
    \/ units # << >>
    \/ result2.method = "no-units-exploded"

\* the record positions a found result picked
PickedRecords(r) ==
    IF r.method \in {"exact-exploded", "robust-greedy-local-exploded"}
    THEN { units[r.picked[i]].Original_Index : i \in 1..Len(r.picked) }
    ELSE SeqRange(r.picked)

\* C7: a record whose package count is <= 0 contributes no unit to
\* explode_by_pkg and is never among the picked items of a successful match,
\* whichever strategy produced the result.
C7_NoPackagesNeverPicked ==
    /\ Exploded =>
         \A i \in 1..Len(units) : cand_df[units[i].Original_Index].Pkg > 0
    /\ \A r \in {result1, result2, result} :
         r.found => \A i \in PickedRecords(r) : cand_df[i].Pkg > 0

\* the positions in units of the rows that came from record i
UnitsOf(i) == { j \in 1..Len(units) : units[j].Original_Index = i }

\* C8: explode_by_pkg yields, for every record with package count p > 0,
\* exactly p units, each with weight = record weight / p, volume = record
\* volume / p and the record as its origin, so that the units' weights and
\* volumes sum to the record's totals.
C8_ExplodeKeepsTotals ==
    Exploded =>
        \A i \in 1..Len(cand_df) :
            cand_df[i].Pkg > 0 =>
                /\ Cardinality(UnitsOf(i)) = cand_df[i].Pkg
                /\ \A j \in UnitsOf(i) :
                     /\ units[j].gw * cand_df[i].Pkg = cand_df[i].gw
                     /\ units[j].cbm * cand_df[i].Pkg = cand_df[i].cbm
                /\ SetSum(units, UnitsOf(i), "gw") = cand_df[i].gw
                /\ SetSum(units, UnitsOf(i), "cbm") = cand_df[i].cbm

\* explode_by_pkg ran on a pool with a record of three packages and a record
\* without packages
C8_Witness ==
    /\ entry = "explode_by_pkg" /\ mpc = "done"
    /\ Len(cand_df) = 2 /\ cand_df[1].Pkg = 3 /\ cand_df[2].Pkg <= 0
    /\ Len(units) = 3

\* an immediate failure: nothing found, nothing picked, no sums
FailedWith(r, method) ==
    r = [found |-> FALSE, picked |-> << >>, sum_gw |-> None, sum_cbm |-> None,
         method |-> method]

\* the functions whose return value the state holds
Returned(fn) ==
    CASE fn = "find_subset_match" -> result1.method # "unset"
      [] fn = "find_subset_match_exploded" -> result2.method # "unset"
      [] fn = "enhanced_subset_matching" ->
            entry = "enhanced_subset_matching" /\ mpc = "done"

\* C9 as stated: with k <= 0 or a pool of fewer than k items every matcher
\* fails immediately and tags its result `invalid`.
C9_InvalidTagEverywhere ==
    /\ Returned("find_subset_match") /\ (target.k <= 0 \/ Len(cand_df) < target.k)
         => FailedWith(result1, "invalid")
    /\ Returned("find_subset_match_exploded")
         /\ (target.k <= 0 \/ Len(explode_by_pkg(cand_df)) < target.k)
         => FailedWith(result2, "invalid")
    /\ Returned("enhanced_subset_matching") /\ (target.k <= 0 \/ Len(cand_df) < target.k)
         => FailedWith(result, "invalid")

\* C9 amended: find_subset_match fails immediately with the tag `invalid`
\* when k <= 0 or the pool has fewer than k rows; find_subset_match_exploded
\* fails (nothing picked, no sums) with the tag `no-candidate-exploded` when
\* k <= 0 or the pool is empty, `no-units-exploded` when there are no units
\* and the tag of the path taken when there are fewer than k units;
\* enhanced_subset_matching fails with the tag `no-candidate` when k <= 0 or
\* the pool is empty and with the tag `invalid` when the pool has fewer than
\* k rows and fewer than k units.
C9_ImmediateFailureTags ==
    /\ Returned("find_subset_match") /\ (target.k <= 0 \/ Len(cand_df) < target.k)
         => FailedWith(result1, "invalid")
    /\ Returned("find_subset_match_exploded") =>
         LET n == Len(explode_by_pkg(cand_df))
         IN  /\ target.k <= 0 \/ cand_df = << >>
                  => FailedWith(result2, "no-candidate-exploded")
             /\ target.k > 0 /\ cand_df # << >> /\ n = 0
                  => FailedWith(result2, "no-units-exploded")
             /\ target.k > 0 /\ 0 < n /\ n < target.k
                  => FailedWith(result2, IF n <= MAX_EXACT_N THEN "exact-exploded"
                                         ELSE "robust-greedy-local-exploded")
    /\ Returned("enhanced_subset_matching") =>
         /\ target.k <= 0 \/ cand_df = << >> => FailedWith(result, "no-candidate")
         /\ target.k > 0 /\ cand_df # << >> /\ Len(cand_df) < target.k
              /\ Len(explode_by_pkg(cand_df)) < target.k
              => FailedWith(result, "invalid")

\* enhanced_subset_matching returned for a pool with fewer rows and fewer
\* units than the target asks for
C9_Witness ==
    /\ Returned("enhanced_subset_matching")
    /\ target.k = 3 /\ Len(cand_df) = 2 /\ Len(units) = 2
    /\ result.method = "invalid"

\* C10: on the three exits of robust_greedy_local that return a selection,
\* success is true exactly when the weight sum and the volume sum of the
\* returned selection are both within the tolerance, and the reported sums
\* are the sums of that selection.
C10_SuccessIffWithinTolerance ==
    rgl.exit \in {"initial", "early", "final"} =>
        LET S == SeqRange(rgl.ret.picked)
        IN  /\ rgl.ret.success <=>
                 WithinTolerance(rgl.values, S, target.gw_tgt, target.cbm_tgt)
            /\ Cardinality(S) = Len(rgl.ret.picked)
            /\ rgl.ret.sum_gw = << SetSum(rgl.values, S, "gw") >>
            /\ rgl.ret.sum_cbm = << SetSum(rgl.values, S, "cbm") >>

\* the search returned on its early exit, inside a pass, with success
C10_Witness ==
    /\ rgl.exit = "early" /\ rgl.ret.success /\ rgl.iteration >= 2
    /\ Len(rgl.ret.picked) = 3

(***************************************************************************)
(* Warehouse names, billing modes and contract rates                       *)
(***************************************************************************)
AsciiUpper ==
    << "A", "B", "C", "D", "E", "F", "G", "H", "I", "J", "K", "L", "M",
       "N", "O", "P", "Q", "R", "S", "T", "U", "V", "W", "X", "Y", "Z" >>

AsciiLower ==
    << "a", "b", "c", "d", "e", "f", "g", "h", "i", "j", "k", "l", "m",
       "n", "o", "p", "q", "r", "s", "t", "u", "v", "w", "x", "y", "z" >>

\* str.lower() of one character
Lower(c) ==
    IF \E i \in 1..26 : AsciiUpper[i] = c
    THEN AsciiLower[CHOOSE i \in 1..26 : AsciiUpper[i] = c]
    ELSE c

LowerStr(s) == [i \in 1..Len(s) |-> Lower(s[i])]

\* a in b, for strings
IsSubstr(a, b) ==
    \E i \in 0..(Len(b) - Len(a)) : SubSeq(b, i + 1, i + Len(a)) = a

SeqToSet(q) == { q[i] : i \in 1..Len(q) }

FirstOf(S) == CHOOSE x \in S : \A y \in S : x <= y

\* a name that is None (or NaN), as opposed to the empty string
NoneName == << "None" >>

Unknown == << "U", "n", "k", "n", "o", "w", "n" >>

DSV_Al_Markaz == << "D", "S", "V", " ", "A", "l", " ", "M", "a", "r", "k", "a", "z" >>

DSV_Indoor == << "D", "S", "V", " ", "I", "n", "d", "o", "o", "r" >>

DSV_Outdoor == << "D", "S", "V", " ", "O", "u", "t", "d", "o", "o", "r" >>

DSV_MZP == << "D", "S", "V", " ", "M", "Z", "P" >>

AAA_Storage == << "A", "A", "A", " ", "S", "t", "o", "r", "a", "g", "e" >>

Hauler_Indoor == << "H", "a", "u", "l", "e", "r", " ", "I", "n", "d", "o", "o", "r" >>

DHL_Warehouse == << "D", "H", "L", " ", "W", "a", "r", "e", "h", "o", "u", "s", "e" >>

MOSB == << "M", "O", "S", "B" >>

BILLING_MODE_RATE == { DSV_Outdoor, DSV_MZP, DSV_Indoor, DSV_Al_Markaz }

BILLING_MODE_PASSTHROUGH == { AAA_Storage, Hauler_Indoor, DHL_Warehouse }

BILLING_MODE_NO_CHARGE == { MOSB }

\* the dict as its items: (key, value) pairs
WAREHOUSE_RATES ==
    { << DSV_Outdoor, 18 >>, << DSV_MZP, 33 >>, << DSV_Indoor, 47 >>,
      << DSV_Al_Markaz, 47 >>, << AAA_Storage, 0 >>, << Hauler_Indoor, 0 >>,
      << DHL_Warehouse, 0 >>, << MOSB, 0 >> }

\* the dict in its insertion order, which is the order .items() iterates in
WAREHOUSE_NAME_MAPPING ==
    << [std |-> DSV_Al_Markaz,
        variants |-> << DSV_Al_Markaz, << "D", "S", "V", " ", "A", "l", "M", "a", "r", "k", "a", "z" >>, << "A", "l", " ", "M", "a", "r", "k", "a", "z" >>, << "A", "l", "M", "a", "r", "k", "a", "z" >> >>],
       [std |-> DSV_Indoor,
        variants |-> << DSV_Indoor, << "D", "S", "V", "I", "n", "d", "o", "o", "r" >>, << "I", "n", "d", "o", "o", "r" >> >>],
       [std |-> DSV_Outdoor,
        variants |-> << DSV_Outdoor, << "D", "S", "V", "O", "u", "t", "d", "o", "o", "r" >>, << "O", "u", "t", "d", "o", "o", "r" >> >>],
       [std |-> DSV_MZP,
        variants |-> << DSV_MZP, << "D", "S", "V", "M", "Z", "P" >>, << "M", "Z", "P" >> >>],
       [std |-> AAA_Storage,
        variants |-> << AAA_Storage, << "A", "A", "A", "S", "t", "o", "r", "a", "g", "e" >>, << "A", "A", "A" >> >>],
       [std |-> Hauler_Indoor,
        variants |-> << Hauler_Indoor, << "H", "a", "u", "l", "e", "r", "I", "n", "d", "o", "o", "r" >>, << "H", "a", "u", "l", "e", "r" >> >>],
       [std |-> DHL_Warehouse,
        variants |-> << DHL_Warehouse, << "D", "H", "L", "W", "a", "r", "e", "h", "o", "u", "s", "e" >>, << "D", "H", "L" >> >>],
       [std |-> MOSB,
        variants |-> << MOSB, << "M", "O", "S", "B", " ", "S", "t", "o", "r", "a", "g", "e" >> >>] >>

\* `name in variants` for the i-th standard name
ExactVariant(i, s) == s \in SeqToSet(WAREHOUSE_NAME_MAPPING[i].variants)

\* some variant of the i-th standard name contains s, or is contained in it,
\* both in lower case
PartialVariant(i, s) ==
    \E s_low \in { LowerStr(s) } :
        \E v \in SeqToSet(WAREHOUSE_NAME_MAPPING[i].variants) :
            \E v_low \in { LowerStr(v) } :
                IsSubstr(s_low, v_low) \/ IsSubstr(v_low, s_low)

\* main build: the exact loop over every standard name, then the substring loop
normalize_warehouse_name(warehouse_name) ==
    IF warehouse_name = NoneName \/ warehouse_name = << >> THEN Unknown
    ELSE LET s == Strip(warehouse_name)
             exact == { i \in 1..Len(WAREHOUSE_NAME_MAPPING) : ExactVariant(i, s) }
             partial == { i \in 1..Len(WAREHOUSE_NAME_MAPPING) : PartialVariant(i, s) }
         IN  IF exact # {} THEN WAREHOUSE_NAME_MAPPING[FirstOf(exact)].std
             ELSE IF partial # {} THEN WAREHOUSE_NAME_MAPPING[FirstOf(partial)].std
             ELSE s

\* safe build: one loop, each standard name tested exactly and then by
\* substring before the next standard name is looked at
normalize_warehouse_name_safe(name) ==
    IF name = NoneName THEN Unknown
    ELSE LET s == Strip(name)
             hit == { i \in 1..Len(WAREHOUSE_NAME_MAPPING) :
                        ExactVariant(i, s) \/ PartialVariant(i, s) }
         IN  IF hit # {} THEN WAREHOUSE_NAME_MAPPING[FirstOf(hit)].std
             ELSE s

\* get_billing_mode without its no-charge branch
get_billing_mode_two_modes(warehouse) ==
    IF warehouse = << >> THEN "unknown"
    ELSE LET warehouse_clean == Strip(warehouse)
         IN  IF warehouse_clean \in BILLING_MODE_RATE THEN "rate"
             ELSE IF warehouse_clean \in BILLING_MODE_PASSTHROUGH THEN "passthrough"
             ELSE "unknown"

\* main build
get_billing_mode(warehouse) ==
    IF warehouse = << >> THEN "unknown"
    ELSE LET warehouse_clean == Strip(warehouse)
         IN  IF warehouse_clean \in BILLING_MODE_RATE THEN "rate"
             ELSE IF warehouse_clean \in BILLING_MODE_PASSTHROUGH THEN "passthrough"
             ELSE IF warehouse_clean \in BILLING_MODE_NO_CHARGE THEN "no-charge"
             ELSE "unknown"

\* safe build
get_billing_mode_safe(w) ==
    IF w \in BILLING_MODE_RATE THEN "rate"
    ELSE IF w \in BILLING_MODE_PASSTHROUGH THEN "passthrough"
    ELSE IF w \in BILLING_MODE_NO_CHARGE THEN "no-charge"
    ELSE "unknown"

\* WAREHOUSE_RATES.get(warehouse, 0.0), main build
get_warehouse_rate(warehouse) ==
    IF \E kv \in WAREHOUSE_RATES : kv[1] = warehouse
    THEN (CHOOSE kv \in WAREHOUSE_RATES : kv[1] = warehouse)[2]
    ELSE 0

\* float(WAREHOUSE_RATES.get(wh, 0.0)), safe build
get_rate(w) ==
    IF \E kv \in WAREHOUSE_RATES : kv[1] = w
    THEN (CHOOSE kv \in WAREHOUSE_RATES : kv[1] = w)[2]
    ELSE 0

\* the standard names and every variant of the mapping
MappedNames ==
    UNION { SeqToSet(WAREHOUSE_NAME_MAPPING[i].variants) :
              i \in 1..Len(WAREHOUSE_NAME_MAPPING) }

\* names as they arrive: every mapped name, other spellings of them, names
\* the mapping does not know, the empty name and no name at all
WarehouseNames ==
    MappedNames \cup
    { << "d", "s", "v", " ", "i", "n", "d", "o", "o", "r" >>, << "D", "S", "V", " ", "I", "N", "D", "O", "O", "R" >>, << "m", "o", "s", "b" >>, << "M", "o", "s", "b" >>, << "h", "a", "u", "l", "e", "r", " ", "i", "n", "d", "o", "o", "r" >>,
      << " ", "M", "O", "S", "B", " " >>, << " ", "D", "S", "V", " ", "O", "u", "t", "d", "o", "o", "r" >>, << "A", "A", "A", " ", "S", "t", "o", "r", "a", "g", "e", " " >>, << " ", "H", "a", "u", "l", "e", "r", " ", "I", "n", "d", "o", "o", "r", " " >>,
      << "D", "S", "V" >>, << "D", "S", "V", " ", "I", "n", "d", "o", "o", "r", " ", "W", "a", "r", "e", "h", "o", "u", "s", "e" >>, << "D", "S", "V", " ", "O", "u", "t", "d", "o", "o", "r", " ", "Y", "a", "r", "d" >>, << "S", "t", "o", "r", "a", "g", "e" >>,
      << "D", "H", "L", " ", "W", "a", "r", "e", "h", "o", "u", "s", "e", " ", "2" >>, << "M", "O", "S", "B", " ", "S", "t", "o", "r", "a", "g", "e", " ", "Y", "a", "r", "d" >>,
      << "U", "n", "k", "n", "o", "w", "n", " ", "W", "a", "r", "e", "h", "o", "u", "s", "e" >>, << "A", "G", "I" >>, << "D", "a", "n", "g", "e", "r", "o", "u", "s", " ", "S", "t", "o", "r", "a", "g", "e" >>, << "S", "h", "i", "f", "t", "i", "n", "g" >>,
      << >>, << " " >>, NoneName }

(***************************************************************************)
(* A warehouse name through normalization, then mode and rate lookup       *)
(***************************************************************************)
NamesInit ==
    /\ wh_name \in WarehouseNames
    /\ wpc = "start"
    /\ wh = << >>
    /\ IdIdle /\ MatchIdle /\ BillIdle /\ RunIdle /\ OccIdle

\* main build: the name of an invoice line is normalized (lines 1929-1930)
NormalizeWarehouseName ==
    /\ wpc = "start"
    /\ wh' = [build |-> "main", name |-> normalize_warehouse_name(wh_name)]
    /\ wpc' = "normalized"
    /\ UNCHANGED << wh_name, idVars, matchVars, billVars, runVars, occVars >>

\* safe build: the warehouse of an invoice row is normalized (lines 520, 565, 827)
NormalizeWarehouseNameSafe ==
    /\ wpc = "start"
    /\ wh' = [build |-> "safe", name |-> normalize_warehouse_name_safe(wh_name)]
    /\ wpc' = "normalized"
    /\ UNCHANGED << wh_name, idVars, matchVars, billVars, runVars, occVars >>

\* safe build: the warehouse of a system row is used as it is (lines 538, 572)
SystemWarehouseName ==
    /\ wpc = "start"
    /\ wh_name # NoneName
    /\ wh' = [build |-> "safe", name |-> wh_name]
    /\ wpc' = "system"
    /\ UNCHANGED << wh_name, idVars, matchVars, billVars, runVars, occVars >>

GetBillingMode ==
    /\ wpc \in {"normalized", "system"}
    /\ wh' = [build |-> wh.build, name |-> wh.name,
              mode |-> IF wh.build = "main" THEN get_billing_mode(wh.name)
                       ELSE get_billing_mode_safe(wh.name)]
    /\ wpc' = IF wpc = "normalized" THEN "mode" ELSE "system-mode"
    /\ UNCHANGED << wh_name, idVars, matchVars, billVars, runVars, occVars >>

GetWarehouseRate ==
    /\ wpc \in {"mode", "system-mode"}
    /\ wh' = [build |-> wh.build, name |-> wh.name, mode |-> wh.mode,
              rate |-> IF wh.build = "main" THEN get_warehouse_rate(wh.name)
                       ELSE get_rate(wh.name)]
    /\ wpc' = IF wpc = "mode" THEN "done" ELSE "system-done"
    /\ UNCHANGED << wh_name, idVars, matchVars, billVars, runVars, occVars >>

NamesNext ==
    \/ NormalizeWarehouseName
    \/ NormalizeWarehouseNameSafe
    \/ SystemWarehouseName
    \/ GetBillingMode
    \/ GetWarehouseRate

SpecNames == NamesInit /\ [][NamesNext]_vars

(***************************************************************************)
(* Properties of warehouse names, modes and rates                          *)
(***************************************************************************)
\* the standard names whose variant list holds s exactly
ExactStandards(s) ==
    { WAREHOUSE_NAME_MAPPING[i].std :
        i \in { j \in 1..Len(WAREHOUSE_NAME_MAPPING) : ExactVariant(j, s) } }

\* the standard names with a variant that contains s or is contained in it,
\* ignoring case
PartialStandards(s) ==
    { WAREHOUSE_NAME_MAPPING[i].std :
        i \in { j \in 1..Len(WAREHOUSE_NAME_MAPPING) : PartialVariant(j, s) } }

\* C11: in both builds normalize_warehouse_name returns, for a name that is
\* given, the standard name whose variant list holds the trimmed name exactly
\* when there is one; otherwise a standard name with a variant that contains
\* the name or is contained in it, ignoring case; otherwise the trimmed name
\* itself.
C11_ExactBeforeSubstring ==
    wpc = "normalized" /\ wh_name # NoneName /\ wh_name # << >> =>
        LET s == Strip(wh_name)
        IN  IF ExactStandards(s) # {} THEN wh.name \in ExactStandards(s)
            ELSE IF PartialStandards(s) # {} THEN wh.name \in PartialStandards(s)
            ELSE wh.name = s

\* C12: the rate, passthrough and no-charge sets are pairwise disjoint, and
\* get_billing_mode gives a name the mode of the one set that holds it, or
\* unknown when no set does.
C12_ExactlyOneMode ==
    /\ BILLING_MODE_RATE \cap BILLING_MODE_PASSTHROUGH = {}
    /\ BILLING_MODE_RATE \cap BILLING_MODE_NO_CHARGE = {}
    /\ BILLING_MODE_PASSTHROUGH \cap BILLING_MODE_NO_CHARGE = {}
    /\ wpc \in {"mode", "system-mode"} =>
          /\ wh.mode \in {"rate", "passthrough", "no-charge", "unknown"}
          /\ wh.mode = "rate" <=> wh.name \in BILLING_MODE_RATE
          /\ wh.mode = "passthrough" <=> wh.name \in BILLING_MODE_PASSTHROUGH
          /\ wh.mode = "no-charge" <=> wh.name \in BILLING_MODE_NO_CHARGE
          /\ wh.mode = "unknown" <=>
                wh.name \notin BILLING_MODE_RATE \cup BILLING_MODE_PASSTHROUGH
                                 \cup BILLING_MODE_NO_CHARGE

\* the main build classified the no-charge warehouse, normalized from another
\* spelling of its name
C12_Witness ==
    /\ wpc = "mode" /\ wh.build = "main"
    /\ wh.mode = "no-charge" /\ wh_name # wh.name

\* mode and rate of the eight canonical names, as the contract lists them
CanonicalModeRate ==
    { << DSV_Outdoor, "rate", 18 >>, << DSV_MZP, "rate", 33 >>,
      << DSV_Indoor, "rate", 47 >>, << DSV_Al_Markaz, "rate", 47 >>,
      << AAA_Storage, "passthrough", 0 >>, << Hauler_Indoor, "passthrough", 0 >>,
      << DHL_Warehouse, "passthrough", 0 >>, << MOSB, "no-charge", 0 >> }

\* C13: a canonical name that is normalized and then looked up gets the mode
\* and the rate of that same warehouse; a rate-mode warehouse has a non-zero
\* rate and every passthrough, no-charge or unknown warehouse has rate 0.
C13_CanonicalModeAndRate ==
    wpc = "done" =>
        /\ \A c \in CanonicalModeRate :
              wh_name = c[1] => wh.name = c[1] /\ wh.mode = c[2] /\ wh.rate = c[3]
        /\ wh.mode = "rate" <=> wh.rate # 0

(***************************************************************************)
(* Monthly charges: system amount against invoice amount                   *)
(*                                                                         *)
(* Amounts are in 0.01 AED, areas in 0.001 sqm, rates in AED per sqm, and  *)
(* a relative error threshold is a number of percent.                      *)
(***************************************************************************)
NaN == << >>

\* a cell that holds the number x
Num(x) == << x >>

\* round(area * rate, 2): area * rate is in 0.001 AED, the result in 0.01 AED
Round2(x) ==
    LET q == x \div 10
        r == x % 10
    IN  IF r < 5 THEN q
        ELSE IF r > 5 THEN q + 1
        ELSE IF q % 2 = 0 THEN q ELSE q + 1

RECURSIVE SumSeq(_)
SumSeq(q) == IF q = << >> THEN 0 ELSE Head(q) + SumSeq(Tail(q))

\* the rows of one (Month, Warehouse) group
GroupRows(df, month, warehouse) ==
    SelectSeq(df, LAMBDA r : r.Month = month /\ r.Warehouse = warehouse)

\* groupby(["Month","Warehouse"])[col].sum() looked up by a left merge: NaN
\* when the group does not exist, else the sum of the cells that are not NaN
GroupAmount(df, month, warehouse) ==
    LET g == GroupRows(df, month, warehouse)
    IN  IF g = << >> THEN NaN
        ELSE Num(SumSeq([i \in 1..Len(g) |-> g[i].Invoice_Amount]))

GroupRate(df, month, warehouse) ==
    LET g == SelectSeq(GroupRows(df, month, warehouse),
                       LAMBDA r : r.Invoice_Rate # NaN)
    IN  IF GroupRows(df, month, warehouse) = << >> THEN NaN
        ELSE Num(SumSeq([i \in 1..Len(g) |-> g[i].Invoice_Rate[1]]))

\* main(): invoice_df["Warehouse"] = invoice_df[wh_col].map(normalize_warehouse_name)
\* for an invoice whose warehouse column is Location
LoadedInvoice(df) ==
    [i \in 1..Len(df) |->
        [Month |-> df[i].Month,
         Location |-> df[i].Location,
         Warehouse |-> normalize_warehouse_name_safe(df[i].Location),
         Invoice_Amount |-> df[i].Invoice_Amount,
         Invoice_Rate |-> df[i].Invoice_Rate]]

\* create_monthly_charges_match: inv["Warehouse"] = inv[wh_col].map(normalize_warehouse_name),
\* where wh_col is now Warehouse
NormalizedInvoice(df) ==
    [i \in 1..Len(df) |->
        [df[i] EXCEPT !.Warehouse = normalize_warehouse_name_safe(df[i].Warehouse)]]

\* the dict (Month, Warehouse) -> summed Invoice_Amount, as its items
PassthroughDict(df) ==
    { << df[i].Month, df[i].Warehouse,
         GroupAmount(df, df[i].Month, df[i].Warehouse)[1] >> : i \in 1..Len(df) }

\* passthrough_amounts.get((month, warehouse), 0.0)
PassthroughGet(d, month, warehouse) ==
    IF \E e \in d : e[1] = month /\ e[2] = warehouse
    THEN (CHOOSE e \in d : e[1] = month /\ e[2] = warehouse)[3]
    ELSE 0

\* the calculator's charge of one warehouse-month: area x rate for a rate
\* warehouse, the invoice amount of the dict for a passthrough warehouse,
\* nothing for any other
calculate_monthly_invoice_charges_prorated(row, passthrough_amounts) ==
    LET mode == get_billing_mode_safe(row.Warehouse)
    IN  [Month |-> row.Month,
         Warehouse |-> row.Warehouse,
         System_Avg_SQM |-> row.System_Avg_SQM,
         System_Amount |->
             IF mode = "rate"
             THEN Round2(row.System_Avg_SQM * get_rate(row.Warehouse))
             ELSE IF mode = "passthrough"
             THEN PassthroughGet(passthrough_amounts, row.Month, row.Warehouse)
             ELSE 0]

\* delta_thr = 0.02
delta_thr == 2

\* abs(row["Δ_%"]) <= pct / 100, where Δ_% is 0 for an invoice amount of 0
\* and Δ_AED / Invoice_Amount otherwise
RelErrWithin(row, pct) ==
    IF row.Invoice_Amount = 0 THEN TRUE
    ELSE Abs(row.D_AED) * 100 <= pct * Abs(row.Invoice_Amount)

recalc(row) ==
    IF row.Expected_Mode = "rate"
    THEN Round2(row.System_Avg_SQM * row.Contract_Rate)
    ELSE IF row.Expected_Mode = "passthrough" THEN row.System_Amount
    ELSE 0

\* _status with every no-charge row passing
status_nocharge_pass(row) ==
    IF row.Expected_Mode = "rate"
    THEN IF RelErrWithin(row, delta_thr) THEN "PASS" ELSE "FAIL"
    ELSE IF row.Expected_Mode = "passthrough"
    THEN IF Abs(row.Invoice_Amount - row.System_Amount_Recalc) < 50 THEN "PASS" ELSE "FAIL"
    ELSE IF row.Expected_Mode = "no-charge" THEN "PASS"
    ELSE "FAIL"

status(row) ==
    IF row.Expected_Mode = "rate"
    THEN IF RelErrWithin(row, delta_thr) THEN "PASS" ELSE "FAIL"
    ELSE IF row.Expected_Mode = "passthrough"
    THEN IF Abs(row.Invoice_Amount - row.System_Amount_Recalc) < 50 THEN "PASS" ELSE "FAIL"
    ELSE IF row.Expected_Mode = "no-charge"
    THEN IF row.Invoice_Amount = 0 THEN "PASS" ELSE "FAIL"
    ELSE "FAIL"

reason(row) ==
    IF row.Expected_Mode = "unknown" THEN "MODE_MISSING"
    ELSE IF row.Expected_Mode = "rate"
    THEN IF row.Invoice_Rate # NaN /\ row.Invoice_Rate[1] # row.Contract_Rate
         THEN "RATE_DIFF"
         ELSE IF row.Status = "PASS" THEN "" ELSE "PRORATION_MISMATCH"
    ELSE IF row.Expected_Mode = "passthrough"
    THEN IF row.Status = "PASS" THEN "" ELSE "PASSTHROUGH_MISMATCH"
    ELSE IF row.Expected_Mode = "no-charge"
    THEN IF row.Status = "PASS" THEN "" ELSE "NOCHARGE_VIOLATION"
    ELSE ""

\* the merged row of df_sys and inv_grp with the columns computed from it,
\* given the functions of the build
MatchRow(build, sysr, inv_grp_df, mode, rate) ==
    LET m0 == [build |-> build,
               Month |-> sysr.Month,
               Warehouse |-> sysr.Warehouse,
               System_Avg_SQM |-> sysr.System_Avg_SQM,
               System_Amount |-> sysr.System_Amount,
               Expected_Mode |-> mode,
               Contract_Rate |-> rate,
               Invoice_Rate |-> GroupRate(inv_grp_df, sysr.Month, sysr.Warehouse)]
        amount == GroupAmount(inv_grp_df, sysr.Month, sysr.Warehouse)
        Invoice_Amount == IF amount = NaN THEN 0 ELSE amount[1]
    IN  m0 @@
        [System_Amount_Recalc |-> recalc(m0),
         Invoice_Amount |-> Invoice_Amount,
         D_AED |-> Invoice_Amount - recalc(m0)]

create_monthly_charges_match(sysr, inv_df) ==
    LET m == MatchRow("safe", sysr, NormalizedInvoice(inv_df),
                      get_billing_mode_safe(sysr.Warehouse), get_rate(sysr.Warehouse))
        ms == m @@ [Status |-> status(m)]
    IN  ms @@ [Reason_Code |-> reason(ms)]

\* REASON, the texts the main build writes for the reason codes
REASON ==
    [RATE_DIFF |-> "Invoice rate != Contract rate",
     PASSTHROUGH_MISMATCH |-> "Passthrough amount != Invoice total",
     NOCHARGE_VIOLATION |-> "No-charge policy (MOSB) but invoice amount > 0",
     PRORATION_MISMATCH |-> "Movement/proration mismatch (AvgSQM vs billed SQM)",
     NAME_MISMATCH |-> "Warehouse name normalization mismatch",
     MODE_MISSING |-> "Billing mode missing",
     RATE_MISSING |-> "Contract rate missing"]

\* main build, inline: every mode that is neither rate nor passthrough takes
\* the no-charge branch
status_inline(row) ==
    IF row.Expected_Mode = "rate"
    THEN IF RelErrWithin(row, delta_thr) THEN "PASS" ELSE "FAIL"
    ELSE IF row.Expected_Mode = "passthrough"
    THEN IF Abs(row.Invoice_Amount - row.System_Amount_Recalc) < 50 THEN "PASS" ELSE "FAIL"
    ELSE IF row.Invoice_Amount = 0 THEN "PASS" ELSE "FAIL"

reason_inline(row) ==
    IF row.Expected_Mode = "unknown" THEN REASON.MODE_MISSING
    ELSE IF row.Expected_Mode = "rate"
    THEN IF row.Invoice_Rate # NaN /\ row.Invoice_Rate[1] # row.Contract_Rate
         THEN REASON.RATE_DIFF
         ELSE IF row.Status = "FAIL" THEN REASON.PRORATION_MISMATCH ELSE ""
    ELSE IF row.Expected_Mode = "passthrough"
    THEN IF row.Status = "FAIL" THEN REASON.PASSTHROUGH_MISMATCH ELSE ""
    ELSE IF row.Expected_Mode = "no-charge"
    THEN IF row.Invoice_Amount > 0 THEN REASON.NOCHARGE_VIOLATION ELSE ""
    ELSE ""

\* main build, inline: the invoice is grouped by its Warehouse column as it is
create_monthly_charges_match_inline(sysr, inv_df) ==
    LET m == MatchRow("inline", sysr, inv_df,
                      get_billing_mode_safe(sysr.Warehouse), get_rate(sysr.Warehouse))
        ms == m @@ [Status |-> status_inline(m)]
    IN  ms @@ [Reason_Code |-> reason_inline(ms)]

\* _grade with the 5% band left out
grade_two_levels(row) ==
    IF row.Expected_Mode = "rate"
    THEN IF RelErrWithin(row, delta_thr) THEN "PASS" ELSE "FAIL"
    ELSE row.Status

grade(row) ==
    IF row.Expected_Mode = "rate"
    THEN IF RelErrWithin(row, delta_thr) THEN "PASS"
         ELSE IF RelErrWithin(row, 5) THEN "WARN"
         ELSE "FAIL"
    ELSE row.Status

(***************************************************************************)
(* One warehouse-month through the billing run of the safe build's main()  *)
(***************************************************************************)
MaxInvoiceRows == 2

\* system rows: a warehouse-month of the occupancy data with its average area
SysRows ==
    { [Month |-> "2024-01", Warehouse |-> DSV_Outdoor, System_Avg_SQM |-> a] :
        a \in {101999, 102000, 102001, 105000, 105001} }
    \cup
    { [Month |-> "2024-01", Warehouse |-> DSV_Indoor, System_Avg_SQM |-> 120500] }
    \cup
    { [Month |-> "2024-01", Warehouse |-> w, System_Avg_SQM |-> 50000] :
        w \in {AAA_Storage, Hauler_Indoor, MOSB, << "A", "G", "I" >>} }

\* invoice rows: month, warehouse as the invoice spells it, amount, and the
\* invoice rate when the invoice has one
InvoiceRows ==
    << [Month |-> "2024-01", Location |-> DSV_Indoor,
        Invoice_Amount |-> 560000, Invoice_Rate |-> NaN],
       [Month |-> "2024-01", Location |-> DSV_Outdoor,
        Invoice_Amount |-> 180000, Invoice_Rate |-> Num(18)],
       [Month |-> "2024-01", Location |-> << "O", "u", "t", "d", "o", "o", "r" >>,
        Invoice_Amount |-> 180000, Invoice_Rate |-> Num(20)],
       [Month |-> "2024-02", Location |-> DSV_Outdoor,
        Invoice_Amount |-> 180000, Invoice_Rate |-> Num(18)],
       [Month |-> "2024-01", Location |-> AAA_Storage,
        Invoice_Amount |-> 50025, Invoice_Rate |-> NaN],
       [Month |-> "2024-01", Location |-> << "H", "a", "u", "l", "e", "r" >>,
        Invoice_Amount |-> 100000, Invoice_Rate |-> NaN],
       [Month |-> "2024-01", Location |-> Hauler_Indoor,
        Invoice_Amount |-> 100000, Invoice_Rate |-> NaN],
       [Month |-> "2024-01", Location |-> MOSB,
        Invoice_Amount |-> 0, Invoice_Rate |-> NaN],
       [Month |-> "2024-01", Location |-> MOSB,
        Invoice_Amount |-> 2500, Invoice_Rate |-> NaN],
       [Month |-> "2024-01", Location |-> << "A", "G", "I" >>,
        Invoice_Amount |-> 1000, Invoice_Rate |-> NaN] >>

\* the invoices of up to n rows; the rows of an invoice come in the order of
\* InvoiceRows, the order of the rows of a group not changing its sums
Invoices(n) ==
    { [i \in 1..Len(ix) |-> InvoiceRows[ix[i]]] :
        ix \in { q \in SeqsUpTo(1..Len(InvoiceRows), n) :
                    \A i \in 1..(Len(q) - 1) : q[i] <= q[i + 1] } }

BillInit ==
    /\ sys_row \in SysRows
    /\ invoice_df \in Invoices(MaxInvoiceRows)
    /\ bpc = "start"
    /\ passthrough = << >>
    /\ bill = << >>
    /\ IdIdle /\ MatchIdle /\ NameIdle /\ RunIdle /\ OccIdle

\* main(): the warehouse column is normalized and the passthrough dict built
LoadInvoice ==
    /\ bpc = "start"
    /\ \E df \in {LoadedInvoice(invoice_df)} :
          /\ invoice_df' = df
          /\ passthrough' = PassthroughDict(df)
    /\ bpc' = "loaded"
    /\ UNCHANGED << sys_row, bill, idVars, matchVars, nameVars, runVars, occVars >>

\* main(): the calculator computes the charges with the dict injected
CalculateCharges ==
    /\ bpc = "loaded"
    /\ sys_row' = calculate_monthly_invoice_charges_prorated(sys_row, passthrough)
    /\ bpc' = "charged"
    /\ UNCHANGED << invoice_df, passthrough, bill, idVars, matchVars, nameVars, runVars, occVars >>

CreateMonthlyChargesMatch ==
    /\ bpc = "charged"
    /\ bill' = create_monthly_charges_match(sys_row, invoice_df)
    /\ bpc' = "matched"
    /\ UNCHANGED << sys_row, invoice_df, passthrough, idVars, matchVars, nameVars, runVars, occVars >>

CreateMonthlyChargesMatchInline ==
    /\ bpc = "charged"
    /\ bill' = create_monthly_charges_match_inline(sys_row, invoice_df)
    /\ bpc' = "matched"
    /\ UNCHANGED << sys_row, invoice_df, passthrough, idVars, matchVars, nameVars, runVars, occVars >>

CreateExceptionsAndEvidence ==
    /\ bpc = "matched"
    /\ bill' = bill @@ [Grade |-> grade(bill)]
    /\ bpc' = "graded"
    /\ UNCHANGED << sys_row, invoice_df, passthrough, idVars, matchVars, nameVars, runVars, occVars >>

BillNext ==
    \/ LoadInvoice
    \/ CalculateCharges
    \/ CreateMonthlyChargesMatch
    \/ CreateMonthlyChargesMatchInline
    \/ CreateExceptionsAndEvidence

SpecBilling == BillInit /\ [][BillNext]_vars

(***************************************************************************)
(* Properties of the monthly charges                                       *)
(***************************************************************************)
\* C14: for a rate-mode warehouse-month the system amount is area x contract
\* rate to the cent (120.5 sqm at 47 gives 5,663.50), and the verdict is PASS
\* when |invoice - system| / invoice <= 2%, WARN when it is above 2% and
\* <= 5%, FAIL otherwise, an invoice of 0 counting as 0% (5,600.00 against
\* 5,663.50 is PASS).
C14_RateVerdict ==
    bpc = "graded" /\ bill.Expected_Mode = "rate" =>
        LET sys == bill.System_Amount_Recalc
            invoice == bill.Invoice_Amount
            err == Abs(invoice - sys) * 100
        IN  /\ \E c \in CanonicalModeRate :
                  /\ c[1] = bill.Warehouse
                  /\ Abs(10 * sys - bill.System_Avg_SQM * c[3]) <= 5
            /\ bill.System_Avg_SQM = 120500 /\ bill.Warehouse = DSV_Indoor
                  => sys = 566350
            /\ sys = 566350 /\ invoice = 560000 => bill.Grade = "PASS"
            /\ bill.Grade =
                  IF invoice = 0 \/ err <= 2 * invoice THEN "PASS"
                  ELSE IF err <= 5 * invoice THEN "WARN"
                  ELSE "FAIL"

\* a rate-mode row whose relative error is exactly 5% was graded WARN
C14_Witness ==
    /\ bpc = "graded" /\ bill.Expected_Mode = "rate"
    /\ bill.Invoice_Amount > 0
    /\ Abs(bill.Invoice_Amount - bill.System_Amount_Recalc) * 100 = 5 * bill.Invoice_Amount
    /\ bill.Grade = "WARN"

\* the reason cell holds the code, or the text the main build's REASON table
\* gives for the code
ReasonIs(row, code) == row.Reason_Code \in {code, REASON[code]}

\* C15: for a no-charge warehouse the recomputed system amount is 0 whatever
\* the occupancy, the verdict is PASS exactly when the invoice amount is 0,
\* and a positive invoice amount gives FAIL with reason NOCHARGE_VIOLATION.
C15_NoChargeVerdict ==
    bpc \in {"matched", "graded"} /\ bill.Expected_Mode = "no-charge" =>
        /\ bill.System_Amount_Recalc = 0
        /\ bill.Status = "PASS" <=> bill.Invoice_Amount = 0
        /\ bill.Invoice_Amount > 0 =>
              bill.Status = "FAIL" /\ ReasonIs(bill, "NOCHARGE_VIOLATION")
        /\ bpc = "graded" => bill.Grade = bill.Status

\* a no-charge warehouse with occupancy was invoiced and failed
C15_Witness ==
    /\ bpc = "matched" /\ bill.Expected_Mode = "no-charge"
    /\ bill.System_Avg_SQM > 0 /\ bill.Invoice_Amount > 0
    /\ bill.Status = "FAIL"

\* the invoice-reported amount of a (month, warehouse): the sum of the
\* invoice rows of that month whose warehouse column names that warehouse
InvoiceReported(df, month, warehouse) ==
    LET g == SelectSeq(df, LAMBDA r :
                 r.Month = month /\ normalize_warehouse_name(r.Location) = warehouse)
    IN  SumSeq([i \in 1..Len(g) |-> g[i].Invoice_Amount])

\* C16: for a passthrough warehouse-month the system amount is the invoice
\* amount of that (month, warehouse), the sum of its invoice rows, and the
\* verdict is PASS exactly when |invoice - system| < 0.5, otherwise FAIL
\* with reason PASSTHROUGH_MISMATCH.
C16_PassthroughVerdict ==
    bpc \in {"matched", "graded"} /\ bill.Expected_Mode = "passthrough" =>
        /\ bill.System_Amount_Recalc =
              InvoiceReported(invoice_df, bill.Month, bill.Warehouse)
        /\ bill.Status = "PASS" <=>
              Abs(bill.Invoice_Amount - bill.System_Amount_Recalc) < 50
        /\ bill.Status # "PASS" =>
              bill.Status = "FAIL" /\ ReasonIs(bill, "PASSTHROUGH_MISMATCH")

\* C17: a billing record has a reason code exactly when its verdict is not
\* PASS, and the code is the one of its mode: RATE_DIFF when the invoice rate
\* differs from the contract rate and PRORATION_MISMATCH when it does not,
\* for rate mode; PASSTHROUGH_MISMATCH for passthrough; NOCHARGE_VIOLATION
\* for no-charge; MODE_MISSING for an unknown warehouse.
C17_ReasonIffNotPass ==
    bpc \in {"matched", "graded"} =>
        /\ bill.Reason_Code # "" <=> bill.Status # "PASS"
        /\ bill.Status # "PASS" =>
              CASE bill.Expected_Mode = "rate" ->
                      IF bill.Invoice_Rate # NaN /\ bill.Invoice_Rate[1] # bill.Contract_Rate
                      THEN ReasonIs(bill, "RATE_DIFF")
                      ELSE ReasonIs(bill, "PRORATION_MISMATCH")
                [] bill.Expected_Mode = "passthrough" ->
                      ReasonIs(bill, "PASSTHROUGH_MISMATCH")
                [] bill.Expected_Mode = "no-charge" ->
                      ReasonIs(bill, "NOCHARGE_VIOLATION")
                [] OTHER -> ReasonIs(bill, "MODE_MISSING")

(***************************************************************************)
(* HVDC code matching run of the safe build: build_hvdc_code_match         *)
(*                                                                         *)
(* A package count cell is Num(n), or NaN when the cell is empty.  The     *)
(* pools of a run have at most MAX_EXACT_N rows and units, so that both    *)
(* matchers take their exact branch.                                       *)
(***************************************************************************)
\* the columns Pkg, G.W(kgs), CBM of rows whose package count is a number
IntRows(df) ==
    [i \in 1..Len(df) |-> [Pkg |-> df[i].Pkg[1], gw |-> df[i].gw, cbm |-> df[i].cbm]]

\* int(row.get("Pkg", 0)) raises ValueError on NaN
ExplodeRaises(df) == \E i \in 1..Len(df) : df[i].Pkg = NaN

\* find_subset_match for N <= MAX_EXACT_N
find_subset_match(pkgs_df, kk, gw_tgt, cbm_tgt, tol) ==
    IF InvalidCall(Len(pkgs_df), kk)
    THEN MatchResult(FALSE, << >>, None, None, "invalid")
    ELSE LET e == exact_subset_match(pkgs_df, kk, gw_tgt, cbm_tgt, tol)
         IN  MatchResult(e.found, e.picked, e.sum_gw, e.sum_cbm, "exact")

\* find_subset_match_exploded for at most MAX_EXACT_N units
find_subset_match_exploded(cand, kk, gw_tgt, cbm_tgt, tol) ==
    IF cand = << >> \/ kk <= 0
    THEN MatchResult(FALSE, << >>, None, None, "no-candidate-exploded")
    ELSE LET u == explode_by_pkg(cand)
         IN  IF Len(u) = 0
             THEN MatchResult(FALSE, << >>, None, None, "no-units-exploded")
             ELSE LET e == exact_subset_match(u, kk, gw_tgt, cbm_tgt, tol)
                  IN  MatchResult(e.found, e.picked, e.sum_gw, e.sum_cbm, "exact-exploded")

enhanced_subset_matching(cand, kk, gw_tgt, cbm_tgt, tol) ==
    IF cand = << >> \/ kk <= 0
    THEN MatchResult(FALSE, << >>, None, None, "no-candidate")
    ELSE EnhancedBest(find_subset_match(GwCbmColumns(cand), kk, gw_tgt, cbm_tgt, tol),
                      find_subset_match_exploded(cand, kk, gw_tgt, cbm_tgt, tol),
                      gw_tgt, cbm_tgt)

\* a result dict without the keys an early return leaves out, read with
\* res.get(key, default) by build_hvdc_code_match
EarlyFail(reason_code) ==
    [raised |-> FALSE, Match_Status |-> "FAIL", Reason |-> reason_code,
     Picked_Count |-> 0, GW_SumPicked |-> None, CBM_SumPicked |-> None, Method |-> ""]

\* _match_one_code; raised when explode_by_pkg raises
match_one_code(inv_row, cand, tol) ==
    LET kk == IF inv_row.k # NaN /\ inv_row.k[1] > 0 THEN inv_row.k[1] ELSE 0
    IN  IF kk <= 0 THEN EarlyFail("INVALID_PKG_COUNT")
        ELSE IF cand = << >> THEN EarlyFail("NO_CANDIDATE")
        ELSE IF ExplodeRaises(cand) THEN [raised |-> TRUE]
        ELSE IF Len(explode_by_pkg(IntRows(cand))) = 0 THEN EarlyFail("NO_UNITS")
        ELSE LET res == enhanced_subset_matching(IntRows(cand), kk, inv_row.gw,
                                                 inv_row.cbm, tol)
                 gw_ok == res.sum_gw # None /\ Abs(res.sum_gw[1] - inv_row.gw) <= tol
                 cb_ok == res.sum_cbm # None /\ Abs(res.sum_cbm[1] - inv_row.cbm) <= tol
                 st == IF Len(res.picked) = kk /\ gw_ok /\ cb_ok THEN "PASS" ELSE "FAIL"
             IN  [raised |-> FALSE, Match_Status |-> st,
                  Reason |-> IF st = "PASS" THEN "" ELSE "PKG/GW/CBM MISMATCH",
                  Picked_Count |-> Len(res.picked),
                  GW_SumPicked |-> res.sum_gw, CBM_SumPicked |-> res.sum_cbm,
                  Method |-> res.method]

\* the rows of all_df at the positions of a pool, in the order of all_df
PoolRows(df, cand) ==
    LET F[i \in 0..Len(df)] ==
            IF i = 0 THEN << >>
            ELSE IF i \in cand THEN Append(F[i - 1], df[i]) ELSE F[i - 1]
    IN  F[Len(df)]

\* one pass of the loop body for the invoice line r: the pool, the match and
\* the row appended; raised when either call raises
LoopBody(r, df) ==
    LET pool == build_candidate_pool([i \in 1..Len(df) |-> df[i].code], r.code)
    IN  IF pool.raised THEN [raised |-> TRUE]
        ELSE LET cand == PoolRows(df, pool.cand)
                 res == match_one_code(r, cand, TOL)
             IN  IF res.raised THEN [raised |-> TRUE]
                 ELSE [raised |-> FALSE,
                       cand |-> pool.cand,
                       row |-> [Invoice_RAW_CODE |-> r.code,
                                Invoice_Pkgs |-> IF r.k = NaN THEN 0 ELSE r.k[1],
                                Candidate_Rows |-> Len(cand),
                                Picked_Count |-> res.Picked_Count,
                                GW_SumPicked |-> res.GW_SumPicked,
                                CBM_SumPicked |-> res.CBM_SumPicked,
                                Method |-> res.Method,
                                Match_Status |-> res.Match_Status,
                                Reason |-> res.Reason]]

\* the shipment records a pass of the loop leaves behind, with the records
\* of the pool taken out of them
AllAfterMatch_consumed(df, cand) ==
    SelectSeq(df, LAMBDA rec : \A i \in cand : df[i] # rec)

\* the shipment records a pass of the loop leaves behind: the pool is a
\* .copy() and all_df is never assigned
AllAfterMatch(df, cand) == df

\* the order of the characters of a code
CharRank(c) ==
    CASE c = " " -> 0 [] c = "," -> 1 [] c = "-" -> 2
      [] c \in DecDigits -> 3 + DigitVal(c)
      [] c = "A" -> 13 [] c = "B" -> 14 [] c = "E" -> 15 [] c = "H" -> 16
      [] c = "N" -> 17 [] c = "X" -> 18 [] OTHER -> 19

RECURSIVE StrLess(_, _)
\* a < b for strings
StrLess(a, b) ==
    IF b = << >> THEN FALSE
    ELSE IF a = << >> THEN TRUE
    ELSE IF Head(a) # Head(b) THEN CharRank(Head(a)) < CharRank(Head(b))
    ELSE StrLess(Tail(a), Tail(b))

RECURSIVE SortByCode(_)
\* sort_values(["Month", "Invoice_RAW_CODE"]) of rows of one month: a stable
\* insertion sort
SortByCode(q) ==
    IF q = << >> THEN << >>
    ELSE LET rest == SortByCode(SubSeq(q, 1, Len(q) - 1))
             x == q[Len(q)]
             before == SelectSeq(rest, LAMBDA y : ~StrLess(x.Invoice_RAW_CODE, y.Invoice_RAW_CODE))
             after == SelectSeq(rest, LAMBDA y : StrLess(x.Invoice_RAW_CODE, y.Invoice_RAW_CODE))
         IN  before \o << x >> \o after

MaxTargets == 2

MaxShipments == 2

\* invoice lines: code, package count, weight and volume targets
InvoiceLines ==
    { [code |-> << "X", "-", "0", "0", "8", "7" >>, k |-> Num(1), gw |-> 4, cbm |-> 1],
      [code |-> << "X", "-", "0", "0", "8", "7" >>, k |-> Num(1), gw |-> 21, cbm |-> 11],
      [code |-> << "X", "-", "0", "0", "8", "7" >>, k |-> NaN, gw |-> 4, cbm |-> 1],
      [code |-> << "X", "-", "0", "0", "9", "0" >>, k |-> Num(1), gw |-> 5, cbm |-> 2],
      [code |-> << "X", "-", "0", "0", "8", "7", ",", "9", "0" >>, k |-> Num(2), gw |-> 9, cbm |-> 3],
      [code |-> << "X", "-", "0", "3", "2", "5", "-", "2" >>, k |-> Num(0), gw |-> 4, cbm |-> 1] }

\* shipment records: code, package count, total weight and volume
ShipmentRecords ==
    { [code |-> << "X", "-", "0", "0", "8", "7" >>, Pkg |-> Num(1), gw |-> 4, cbm |-> 1],
      [code |-> << "X", "-", "0", "0", "8", "7" >>, Pkg |-> NaN, gw |-> 4, cbm |-> 1],
      [code |-> << "X", "-", "0", "0", "9", "0" >>, Pkg |-> Num(2), gw |-> 10, cbm |-> 4],
      [code |-> << "X", "-", "0", "0", "9", "0" >>, Pkg |-> Num(0), gw |-> 4, cbm |-> 1] }

Pending == << >>

RunInit ==
    /\ inv \in SeqsUpTo(InvoiceLines, MaxTargets)
    /\ all_df \in SeqsUpTo(ShipmentRecords, MaxShipments)
    /\ rpc = "loop"
    /\ rows = [i \in 1..Len(inv) |-> Pending]
    /\ code_match_df = << >>
    /\ IdIdle /\ MatchIdle /\ NameIdle /\ BillIdle /\ OccIdle

\* one pass of the loop of build_hvdc_code_match, for a line that has no
\* row yet; an exception leaves the loop.  The loop takes the lines in the
\* order of the invoice; the order is left open here.
MatchOneCode ==
    /\ rpc = "loop"
    /\ \E i \in 1..Len(inv) :
          /\ rows[i] = Pending
          /\ \E b \in { LoopBody(inv[i], all_df) } :
                IF b.raised
                THEN rpc' = "raised" /\ UNCHANGED << rows, all_df >>
                ELSE /\ rows' = [rows EXCEPT ![i] = << b.row >>]
                     /\ all_df' = AllAfterMatch(all_df, b.cand)
                     /\ rpc' = rpc
    /\ UNCHANGED << inv, code_match_df, idVars, matchVars, nameVars, billVars, occVars >>

\* build_hvdc_code_match returns the sorted table
ReturnCodeMatch ==
    /\ rpc = "loop"
    /\ \A i \in 1..Len(inv) : rows[i] # Pending
    /\ code_match_df' = SortByCode([i \in 1..Len(inv) |-> rows[i][1]])
    /\ rpc' = "done"
    /\ UNCHANGED << inv, all_df, rows, idVars, matchVars, nameVars, billVars, occVars >>

\* main(): any exception of build_hvdc_code_match gives the empty table
CodeMatchSkipped ==
    /\ rpc = "raised"
    /\ code_match_df' = << >>
    /\ rpc' = "done"
    /\ UNCHANGED << inv, all_df, rows, idVars, matchVars, nameVars, billVars, occVars >>

RunNext ==
    \/ MatchOneCode
    \/ ReturnCodeMatch
    \/ CodeMatchSkipped

SpecRun == RunInit /\ [][RunNext]_vars

(***************************************************************************)
(* Properties of the code matching run                                     *)
(***************************************************************************)
\* the candidate pool of an invoice line: the shipment records whose code is
\* in the expansion of the line's code
PoolOf(r, df) ==
    PoolRows(df, build_candidate_pool([i \in 1..Len(df) |-> df[i].code], r.code).cand)

\* the number of units a pool of well-formed records explodes to
UnitCount(pool) ==
    SumSeq([i \in 1..Len(pool) |-> IF pool[i].Pkg[1] > 0 THEN pool[i].Pkg[1] ELSE 0])

\* C18: a failing invoice line result carries the reason code of its cause:
\* INVALID_PKG_COUNT for a target package count <= 0, NO_CANDIDATE for an
\* empty pool, NO_UNITS for a non-empty pool without units, SUBSET_NOT_FOUND
\* when the matcher ran and found no subset within the tolerance.
C18_FailureReasonOfCause ==
    \A i \in 1..Len(rows) :
        rows[i] # Pending /\ rows[i][1].Match_Status = "FAIL" =>
            LET r == inv[i]
                pool == PoolOf(r, all_df)
            IN  rows[i][1].Reason =
                   IF r.k = NaN \/ r.k[1] <= 0 THEN "INVALID_PKG_COUNT"
                   ELSE IF pool = << >> THEN "NO_CANDIDATE"
                   ELSE IF UnitCount(pool) = 0 THEN "NO_UNITS"
                   ELSE "SUBSET_NOT_FOUND"

\* the shipment records whose package count is a number
WellFormed(df) == SelectSeq(df, LAMBDA rec : rec.Pkg # NaN)

\* C19: a run never raises and ends with exactly one result row for every
\* invoice line; a shipment record without a package count changes only the
\* rows of the lines whose pool it is in.
C19_OneRowPerTarget ==
    /\ rpc # "raised"
    /\ rpc = "done" =>
          /\ Len(code_match_df) = Len(inv)
          /\ \A i \in 1..Len(inv) :
                \E j \in 1..Len(code_match_df) :
                    code_match_df[j].Invoice_RAW_CODE = inv[i].code
    /\ \A i \in 1..Len(rows) :
          rows[i] # Pending /\ ~ExplodeRaises(PoolOf(inv[i], all_df)) =>
              rows[i][1] = LoopBody(inv[i], WellFormed(all_df)).row

RoundHalfEven(x, d) ==
    LET q == x \div d
        r == x % d
    IN  IF 2 * r < d THEN q
        ELSE IF 2 * r > d THEN q + 1
        ELSE IF q % 2 = 0 THEN q ELSE q + 1

SHU == << "S", "H", "U" >>

AGI == << "A", "G", "I" >>

Pre_Arrival == << "P", "r", "e", " ", "A", "r", "r", "i", "v", "a", "l" >>

Port == << "P", "o", "r", "t" >>

Warehouse == << "W", "a", "r", "e", "h", "o", "u", "s", "e" >>

Multiple == << "M", "u", "l", "t", "i", "p", "l", "e" >>

TOTAL_SUMMARY == << "T", "O", "T", "A", "L", "_", "S", "U", "M", "M", "A", "R", "Y" >>

\* one row of flow_timeline
TimelineEvent(row, event_type, location, date_estimate, inbound, outbound) ==
    [SKU |-> row.SKU, Flow_Code |-> row.FLOW_CODE, Final_Location |-> row.Final_Location,
     CBM |-> IF row.CBM = NaN THEN 0 ELSE row.CBM[1],
     Event_Type |-> event_type, Event_Location |-> location, Event_Date |-> date_estimate,
     Is_WH_Inbound |-> inbound, Is_WH_Outbound |-> outbound]

\* the timeline_events of one SKU master row, by its flow code
TimelineEvents(row) ==
    LET Ev(event_type, location, date_estimate, inbound, outbound) ==
            TimelineEvent(row, event_type, location, date_estimate, inbound, outbound)
        final_location == row.Final_Location
    IN  CASE row.FLOW_CODE = 0 ->
               << Ev("PRE_ARRIVAL", Pre_Arrival, << "2", "0", "2", "4", "-", "0", "1", "-", "0", "1" >>, FALSE, FALSE) >>
          [] row.FLOW_CODE = 1 ->
               << Ev("PORT_ARRIVAL", Port, << "2", "0", "2", "4", "-", "0", "1", "-", "0", "1" >>, FALSE, FALSE),
                  Ev("SITE_DELIVERY", final_location, << "2", "0", "2", "4", "-", "0", "1", "-", "0", "2" >>, FALSE, FALSE) >>
          [] row.FLOW_CODE = 2 ->
               << Ev("PORT_ARRIVAL", Port, << "2", "0", "2", "4", "-", "0", "1", "-", "0", "1" >>, FALSE, FALSE),
                  Ev("WH_INBOUND", Warehouse, << "2", "0", "2", "4", "-", "0", "1", "-", "0", "1" >>, TRUE, FALSE),
                  Ev("WH_OUTBOUND", Warehouse, << "2", "0", "2", "4", "-", "0", "1", "-", "1", "5" >>, FALSE, TRUE),
                  Ev("SITE_DELIVERY", final_location, << "2", "0", "2", "4", "-", "0", "1", "-", "1", "6" >>, FALSE, FALSE) >>
          [] row.FLOW_CODE = 3 ->
               << Ev("PORT_ARRIVAL", Port, << "2", "0", "2", "4", "-", "0", "1", "-", "0", "1" >>, FALSE, FALSE),
                  Ev("WH_INBOUND", Warehouse, << "2", "0", "2", "4", "-", "0", "1", "-", "0", "1" >>, TRUE, FALSE),
                  Ev("MOSB_TRANSFER", MOSB, << "2", "0", "2", "4", "-", "0", "1", "-", "1", "0" >>, FALSE, FALSE),
                  Ev("WH_OUTBOUND", MOSB, << "2", "0", "2", "4", "-", "0", "1", "-", "2", "0" >>, FALSE, TRUE),
                  Ev("SITE_DELIVERY", final_location, << "2", "0", "2", "4", "-", "0", "1", "-", "2", "1" >>, FALSE, FALSE) >>
          [] row.FLOW_CODE = 4 ->
               << Ev("COMPLEX_FLOW", Multiple, << "2", "0", "2", "4", "-", "0", "1", "-", "0", "1" >>, FALSE, FALSE),
                  Ev("SITE_DELIVERY", final_location, << "2", "0", "2", "4", "-", "0", "1", "-", "3", "0" >>, FALSE, FALSE) >>
          [] OTHER -> << >>

RECURSIVE calculate_flow_timeline(_)
calculate_flow_timeline(df) ==
    IF df = << >> THEN << >>
    ELSE TimelineEvents(Head(df)) \o calculate_flow_timeline(Tail(df))

warehouse_locations ==
    << DSV_Al_Markaz, DSV_Indoor, DSV_Outdoor, DSV_MZP, Hauler_Indoor, MOSB >>

\* config.warehouse_rates, in 0.01 AED per sqm and month
warehouse_rates ==
    { << DSV_Al_Markaz, 2500 >>, << DSV_Indoor, 3000 >>, << DSV_Outdoor, 2000 >>,
      << DSV_MZP, 3500 >>, << Hauler_Indoor, 2800 >>, << MOSB, 4000 >>,
      << AAA_Storage, 2200 >> }

\* warehouse_rates.get(wh_location, 25.0), times aaa_storage_factor = 1.15
\* if 'AAA' in wh_location
OccupancyRate(wh_location) ==
    LET found == { p \in warehouse_rates : p[1] = wh_location }
        rate  == IF found = {} THEN 2500 ELSE (CHOOSE p \in found : TRUE)[2]
    IN  IF IsSubstr(<< "A", "A", "A" >>, wh_location) THEN (rate * 115) \div 100 ELSE rate

\* _get_utilization_category; sqm in units of 0.001
get_utilization_category(sqm) ==
    IF sqm < 100000 THEN "low"
    ELSE IF sqm < 500000 THEN "medium"
    ELSE IF sqm < 1000000 THEN "high"
    ELSE "very high"

\* WarehouseEvents with the filter on the warehouse's own rows only
WarehouseEvents_own(timeline, wh_location) ==
    SelectSeq(timeline, LAMBDA e : e.Final_Location = wh_location)

\* wh_skus: timeline_df[(Is_WH_Inbound == True) | (Final_Location == wh_location)]
WarehouseEvents(timeline, wh_location) ==
    SelectSeq(timeline, LAMBDA e : e.Is_WH_Inbound \/ e.Final_Location = wh_location)

\* the occupancy_record of one warehouse; total_sqm = total_cbm / 2.5
OccupancyRecord(wh_skus, wh_location, month) ==
    LET total_cbm      == SumSeq([i \in 1..Len(wh_skus) |-> wh_skus[i].CBM])
        total_packages == Cardinality({ wh_skus[i].SKU : i \in 1..Len(wh_skus) })
        total_sqm      == 4 * total_cbm
        rate           == OccupancyRate(wh_location)
    IN  [Month |-> month, Warehouse |-> wh_location,
         Total_SKU_Count |-> total_packages,
         Total_CBM |-> total_cbm,
         Total_SQM |-> RoundHalfEven(total_sqm, 10),
         Rate_AED_per_SQM |-> [num |-> rate, den |-> 1],
         Monthly_Cost_AED |-> RoundHalfEven(total_sqm * rate, 1000),
         Utilization_Category |-> get_utilization_category(total_sqm)]

RECURSIVE OccupancyRecords(_, _, _)
\* "for wh_location in warehouse_locations", from position i on
OccupancyRecords(timeline, i, month) ==
    IF i > Len(warehouse_locations) THEN << >>
    ELSE LET wh_skus == WarehouseEvents(timeline, warehouse_locations[i])
             rest    == OccupancyRecords(timeline, i + 1, month)
         IN  IF Len(wh_skus) = 0 THEN rest
             ELSE << OccupancyRecord(wh_skus, warehouse_locations[i], month) >> \o rest

\* the summary row; its rate is the quotient of the two sums (nan when the
\* area sum is 0)
TotalSummary(records, month) ==
    LET Col(f(_)) == SumSeq([i \in 1..Len(records) |-> f(records[i])])
        cost == Col(LAMBDA r : r.Monthly_Cost_AED)
        sqm  == Col(LAMBDA r : r.Total_SQM)
    IN  [Month |-> month, Warehouse |-> TOTAL_SUMMARY,
         Total_SKU_Count |-> Col(LAMBDA r : r.Total_SKU_Count),
         Total_CBM |-> Col(LAMBDA r : r.Total_CBM),
         Total_SQM |-> sqm,
         Rate_AED_per_SQM |-> [num |-> cost, den |-> sqm],
         Monthly_Cost_AED |-> cost,
         Utilization_Category |-> "summary"]

\* pd.DataFrame([]) has no columns: timeline_df['Is_WH_Inbound'] raises KeyError
OccupancyRaises(timeline) == timeline = << >>

calculate_monthly_warehouse_occupancy(timeline, month) ==
    LET records == OccupancyRecords(timeline, 1, month)
    IN  IF records = << >> THEN << >>
        ELSE Append(records, TotalSummary(records, month))

MaxSkus == 2

\* SKU master rows without their SKU: FLOW_CODE, Final_Location, CBM
SkuTemplates ==
    { [FLOW_CODE |-> 2, Final_Location |-> SHU,         CBM |-> Num(250)],
      [FLOW_CODE |-> 1, Final_Location |-> DSV_Indoor,  CBM |-> Num(500)],
      [FLOW_CODE |-> 0, Final_Location |-> Pre_Arrival, CBM |-> NaN],
      [FLOW_CODE |-> 3, Final_Location |-> AGI,         CBM |-> Num(1000)],
      [FLOW_CODE |-> 4, Final_Location |-> MOSB,        CBM |-> Num(15000)],
      [FLOW_CODE |-> 5, Final_Location |-> DSV_Outdoor, CBM |-> Num(250)] }

\* the rows get distinct SKUs ("WHERE SKU IS NOT NULL" of a master table)
SkuFrames ==
    { [i \in 1..Len(q) |-> [SKU |-> i, FLOW_CODE |-> q[i].FLOW_CODE,
                            Final_Location |-> q[i].Final_Location, CBM |-> q[i].CBM]] :
        q \in SeqsUpTo(SkuTemplates, MaxSkus) }

TargetMonths == { << "2", "0", "2", "4", "-", "0", "1" >>, << "2", "0", "2", "4", "-", "0", "2" >> }

OccInit ==
    /\ sku_df \in SkuFrames
    /\ target_month \in TargetMonths
    /\ opc = "start"
    /\ timeline_df = << >>
    /\ occupancy_df = << >>
    /\ IdIdle /\ MatchIdle /\ NameIdle /\ BillIdle /\ RunIdle

CalculateFlowTimeline ==
    /\ opc = "start"
    /\ timeline_df' = calculate_flow_timeline(sku_df)
    /\ opc' = "timeline"
    /\ UNCHANGED << sku_df, target_month, occupancy_df >>
    /\ UNCHANGED << idVars, matchVars, nameVars, billVars, runVars >>

CalculateMonthlyWarehouseOccupancy ==
    /\ opc = "timeline"
    /\ IF OccupancyRaises(timeline_df)
       THEN opc' = "raised" /\ occupancy_df' = occupancy_df
       ELSE /\ occupancy_df' = calculate_monthly_warehouse_occupancy(timeline_df, target_month)
            /\ opc' = "done"
    /\ UNCHANGED << sku_df, target_month, timeline_df >>
    /\ UNCHANGED << idVars, matchVars, nameVars, billVars, runVars >>

OccNext ==
    \/ CalculateFlowTimeline
    \/ CalculateMonthlyWarehouseOccupancy

SpecOccupancy == OccInit /\ [][OccNext]_vars

\* the month of a date text 'YYYY-MM-DD'
MonthOf(date) == SubSeq(date, 1, 7)

\* the events that place a record in a warehouse in the month: the record
\* ends in it or an event of it happens there, dated in that month
ResidencyEvents(timeline, wh_location, month) ==
    SelectSeq(timeline, LAMBDA e : /\ \/ e.Final_Location = wh_location
                                      \/ e.Event_Location = wh_location
                                   /\ MonthOf(e.Event_Date) = month)

\* C21: every warehouse row of the monthly occupancy result belongs to a
\* warehouse in which at least one record has residency in the target month;
\* a warehouse without any is not listed.
C21_OnlyOccupiedWarehouses ==
    opc = "done" =>
        \A i \in 1..Len(occupancy_df) :
            occupancy_df[i].Warehouse # TOTAL_SUMMARY =>
                ResidencyEvents(timeline_df, occupancy_df[i].Warehouse,
                                occupancy_df[i].Month) # << >>

RECURSIVE SortedSeq(_)
\* the elements of a set of numbers in increasing order
SortedSeq(S) ==
    IF S = {} THEN << >>
    ELSE LET lo == CHOOSE x \in S : \A y \in S : x <= y
         IN  << lo >> \o SortedSeq(S \ {lo})

\* a comes before b in the lexicographic order of itertools.combinations
LexBefore(a, b) ==
    \E j \in 1..Len(a) : a[j] < b[j] /\ \A i \in 1..(j - 1) : a[i] = b[i]

\* the k-combinations of item positions whose sums are both within tolerance
FeasibleCombs(items, kk, gw_t, cbm_t) ==
    { SortedSeq(S) : S \in { T \in KSubsets(Len(items), kk) :
                               WithinTolerance(items, T, gw_t, cbm_t) } }

\* r is the first feasible combination of the items, and no other
FirstFit(r, items) ==
    r.found =>
        LET feasible == FeasibleCombs(items, target.k, target.gw_tgt, target.cbm_tgt)
        IN  /\ r.picked \in feasible
            /\ \A c \in feasible : c = r.picked \/ LexBefore(r.picked, c)

\* C22: on the exact paths (find_subset_match on the records, the exact
\* branch of find_subset_match_exploded on the units) a found result is the
\* first k-combination, in lexicographic order of item positions, whose
\* weight and volume sums are both within tolerance; every other feasible
\* combination comes later and is not returned, whatever its error.
C22_ExactIsFirstFit ==
    /\ result1.method = "exact" => FirstFit(result1, GwCbmColumns(cand_df))
    /\ result2.method = "exact-exploded" => FirstFit(result2, units)

\* the exact branch on units returned a combination although a later one has
\* a strictly smaller error
C22_Witness ==
    /\ result2.method = "exact-exploded" /\ result2.found /\ target.k >= 2
    /\ \E c \in FeasibleCombs(units, target.k, target.gw_tgt, target.cbm_tgt) :
           /\ LexBefore(result2.picked, c)
           /\ TotalError(units, SeqRange(c), target.gw_tgt, target.cbm_tgt)
                < TotalError(units, SeqRange(result2.picked), target.gw_tgt, target.cbm_tgt)

\* the positions at which two selections of the same length differ
ChangedPositions(a, b) == { i \in 1..Len(a) : a[i] # b[i] }

\* the selections one swap away from sel: one selected item replaced by one
\* unselected item
SingleSwaps(values, sel) ==
    { [sel EXCEPT ![i] = in_idx] :
        i \in 1..Len(sel), in_idx \in (1..Len(values)) \ SeqRange(sel) }

\* the lowest error a single swap of sel reaches
BestSwapError(values, sel, gw_t, cbm_t) ==
    LET errs == { calculate_error(values, s, gw_t, cbm_t) : s \in SingleSwaps(values, sel) }
    IN  CHOOSE e \in errs : \A f \in errs : e <= f

\* C23: a local-search pass of robust_greedy_local applies at most one swap,
\* the best strictly-improving one among all (selected, unselected) pairs, so
\* the selection changes in at most one position per pass; a search that is
\* still running holds a selection that is not within tolerance; and a pass
\* that applies no swap ends the search.
C23_OneBestSwapPerPass ==
    /\ [][ rgl.pc = "search" /\ rgl'.pc \in {"search", "returned"} =>
             LET before == rgl.best_indices
                 after  == RglSelection(rgl')
                 gw_t   == target.gw_tgt
                 cbm_t  == target.cbm_tgt
             IN  /\ Cardinality(ChangedPositions(before, after)) <= 1
                 /\ after # before =>
                      calculate_error(rgl.values, after, gw_t, cbm_t)
                        = BestSwapError(rgl.values, before, gw_t, cbm_t)
                 /\ after = before => rgl'.pc = "returned" ]_vars
    /\ [](rgl.pc = "search" =>
            ~TargetReached(rgl.values, rgl.best_indices, target.gw_tgt, target.cbm_tgt, TOL))

(***************************************************************************)
(* Matching calls and code matching runs together: what the matchers and   *)
(* the candidate pool builder leave of their inputs                        *)
(***************************************************************************)
FrameInit == MatchInit \/ RunInit

FrameNext == MatchNext \/ RunNext

SpecFrame == FrameInit /\ [][FrameNext]_vars

\* C24: subset matching and the candidate pool builder never modify what they
\* are given.  No step changes the candidate pool of a matching call, the
\* weight/volume values a running robust_greedy_local call works on, the
\* units once they are exploded, or the shipment records of a run; and the trial swaps leave the
\* current selection alone, so that the error recorded for the selection a
\* running search holds is the error of that selection.
C24_InputsNeverModified ==
    /\ [][ /\ cand_df' = cand_df
           /\ all_df' = all_df
           /\ rgl.pc = "search" => rgl'.values = rgl.values
           /\ units # << >> => units' = units ]_vars
    /\ [](rgl.pc = "search" =>
            /\ rgl.values \in { GwCbmColumns(cand_df), units }
            /\ rgl.best_error = calculate_error(rgl.values, rgl.best_indices,
                                                target.gw_tgt, target.cbm_tgt))

\* a search on the units of the pool went through the trial swaps of two
\* passes, both of which changed the selection, and goes on
C24_Witness ==
    /\ rgl.pc = "search" /\ rgl.iteration >= 2
    /\ cand_df # << >> /\ rgl.values = units

\* C25: a record-level search that runs (k >= 1, at least k records) is the
\* exact enumeration, tagged `exact`, if and only if there are at most 18
\* records, and the greedy local search, tagged `robust-greedy-local`, if and
\* only if there are more; a unit-level search that runs (k >= 1, at least
\* one unit) is tagged `exact-exploded` if and only if there are at most 18
\* units and `robust-greedy-local-exploded` if and only if there are more.
\* The suffix `-exploded` is on every tag of the unit-level search and on no
\* tag of the record-level search, and robust_greedy_local is only ever
\* called on more than 18 items.
C25_MethodTagNamesPath ==
    /\ result1.method # "unset" =>
         LET N    == Len(cand_df)
             runs == ~InvalidCall(N, target.k)
         IN  /\ result1.method \in {"invalid", "exact", "robust-greedy-local"}
             /\ result1.method = "exact" <=> (runs /\ N <= MAX_EXACT_N)
             /\ result1.method = "robust-greedy-local" <=> (runs /\ N > MAX_EXACT_N)
    /\ result2.method # "unset" =>
         LET runs == cand_df # << >> /\ target.k > 0 /\ Len(units) > 0
         IN  /\ result2.method \in {"no-candidate-exploded", "no-units-exploded",
                                    "exact-exploded", "robust-greedy-local-exploded"}
             /\ result2.method = "exact-exploded" <=> (runs /\ Len(units) <= MAX_EXACT_N)
             /\ result2.method = "robust-greedy-local-exploded"
                  <=> (runs /\ Len(units) > MAX_EXACT_N)
    /\ rgl.pc # "idle" =>
         /\ Len(rgl.values) > MAX_EXACT_N
         /\ rgl.caller = "find_subset_match" => rgl.values = GwCbmColumns(cand_df)
         /\ rgl.caller = "find_subset_match_exploded" => rgl.values = units

\* ten records of two packages each: the record-level search was exact, the
\* unit-level search on the twenty units was the greedy local search
C25_Witness ==
    /\ result1.method = "exact" /\ result2.method = "robust-greedy-local-exploded"
    /\ Len(cand_df) <= MAX_EXACT_N /\ Len(units) > MAX_EXACT_N

\* C26: enhanced_subset_matching called with a non-empty pool and k >= 1
\* returns found = true if and only if find_subset_match or
\* find_subset_match_exploded found a subset, and what it returns is the
\* result of one of the two.
C26_EnhancedReturnsOneOfTwo ==
    (/\ entry = "enhanced_subset_matching" /\ mpc = "done"
     /\ cand_df # << >> /\ target.k >= 1) =>
        /\ result.found <=> (result1.found \/ result2.found)
        /\ result \in {result1, result2}
        /\ result1.method # "unset" /\ result2.method # "unset"

\* only the unit-level search found a subset, and its result was returned
C26_Witness ==
    /\ entry = "enhanced_subset_matching" /\ mpc = "done"
    /\ ~result1.found /\ result2.found /\ result = result2
    /\ result1.method = "exact"

\* the number of packages of the shipment records the picked items of a
\* result stand for: one per picked unit, or the package counts of the picked
\* whole records
PackagesPicked(res, cand) ==
    IF res.method \in {"exact-exploded", "robust-greedy-local-exploded"}
    THEN Len(res.picked)
    ELSE SumSeq([j \in 1..Len(res.picked) |-> cand[res.picked[j]].Pkg])

\* C27: every invoice line with verdict PASS and target package count k has
\* picked items that stand for exactly k packages of the shipment records.
C27_PassAccountsForK ==
    \A i \in 1..Len(rows) :
        rows[i] # Pending /\ rows[i][1].Match_Status = "PASS" =>
            LET cand == IntRows(PoolOf(inv[i], all_df))
                res  == enhanced_subset_matching(cand, inv[i].k[1], inv[i].gw, inv[i].cbm, TOL)
            IN  /\ res.method = rows[i][1].Method
                /\ Len(res.picked) = rows[i][1].Picked_Count
                /\ PackagesPicked(res, cand) = inv[i].k[1]

RECURSIVE SwapTrace(_, _, _, _, _, _, _)
\* the selections current_indices goes through in one pass, from position i
\* on: one for every swap the pass applies
SwapTrace(values, cur, i, best_error, gw_t, cbm_t, tol) ==
    IF i > Len(cur) THEN << >>
    ELSE LET After(br) ==
                 IF br.rep # 0 /\ br.err < best_error
                 THEN LET nxt == [br.current EXCEPT ![i] = br.rep]
                      IN  << nxt >> \o
                          (IF TargetReached(values, nxt, gw_t, cbm_t, tol) THEN << >>
                           ELSE SwapTrace(values, nxt, i + 1, br.err, gw_t, cbm_t, tol))
                 ELSE SwapTrace(values, br.current, i + 1, best_error, gw_t, cbm_t, tol)
         IN  Only({ After(br) : br \in { BestReplacement(values, cur, i, 1, best_error, 0,
                                                         gw_t, cbm_t) } })

\* sel holds exactly kk pairwise distinct positions of n items
ValidSelection(sel, n, kk) ==
    /\ Len(sel) = kk
    /\ Cardinality(SeqRange(sel)) = kk
    /\ SeqRange(sel) \subseteq 1..n

\* C28: in a robust_greedy_local call with 1 <= k <= n the selection holds
\* exactly k pairwise distinct item positions, all among the n items: the
\* initial selection, the selection after every swap a pass applies, and the
\* selection returned.
C28_SelectionIsKDistinct ==
    (/\ rgl.pc \in {"search", "returned"}
     /\ 1 <= target.k /\ target.k <= Len(rgl.values)) =>
        LET n == Len(rgl.values)
        IN  /\ ValidSelection(RglSelection(rgl), n, target.k)
            /\ rgl.pc = "search" =>
                 \E trace \in { SwapTrace(rgl.values, rgl.best_indices, 1, rgl.best_error,
                                          target.gw_tgt, target.cbm_tgt, TOL) } :
                     \A j \in 1..Len(trace) : ValidSelection(trace[j], n, target.k)

\* a call with k = 3 returned a selection from inside its second or a later
\* pass, right after a swap
C28_Witness ==
    /\ rgl.pc = "returned" /\ rgl.exit = "early" /\ rgl.iteration >= 2
    /\ target.k = 3 /\ rgl.ret.picked # rgl.best_indices

\* C29: when robust_greedy_local returns success = false after fewer than
\* 300 passes, the selection it returns is a local optimum: no replacement
\* of one selected item by one unselected item has a strictly smaller error
\* |weight sum - target| + |volume sum - target|.
C29_FailureIsLocalOptimum ==
    (/\ rgl.pc = "returned" /\ ~rgl.ret.success
     /\ rgl.iteration < MAX_ITER) =>
        \A s \in SingleSwaps(rgl.values, rgl.ret.picked) :
            calculate_error(rgl.values, s, target.gw_tgt, target.cbm_tgt)
              >= calculate_error(rgl.values, rgl.ret.picked, target.gw_tgt, target.cbm_tgt)

\* a search on 20 units with k = 3 gave up after three or more passes with a
\* selection that is not within tolerance
C29_Witness ==
    /\ rgl.pc = "returned" /\ ~rgl.ret.success /\ rgl.exit = "final"
    /\ rgl.iteration >= 3 /\ rgl.iteration < MAX_ITER
    /\ target.k = 3 /\ Len(rgl.values) = MAX_EXACT_N + 2

\* C30: the two builds classify every warehouse name alike: the standard
\* name a build returned for a name is what normalize_warehouse_name of
\* either build returns for it, and the mode and the rate a build looked up
\* for a name are what get_billing_mode and get_rate of the safe build and
\* get_billing_mode and get_warehouse_rate of the main build return for it.
C30_BuildsClassifyAlike ==
    /\ wpc \in {"normalized", "mode", "done"} =>
         /\ wh.name = normalize_warehouse_name(wh_name)
         /\ wh.name = normalize_warehouse_name_safe(wh_name)
    /\ wpc \in {"mode", "done", "system-mode", "system-done"} =>
         /\ wh.mode = get_billing_mode(wh.name)
         /\ wh.mode = get_billing_mode_safe(wh.name)
    /\ wpc \in {"done", "system-done"} =>
         /\ wh.rate = get_warehouse_rate(wh.name)
         /\ wh.rate = get_rate(wh.name)

====
